---------------------------- MODULE Spec2Model ----------------------------
(* Model of the viewport update-and-render decision engine of package gi  *)
(* (viewport2d.go): the damage classifier SignalViewport2D, the partial   *)
(* re-render helpers ReRender2DNode / ReRender2DAnchor and the viewport's *)
(* own render and compositing methods.                                     *)
(*                                                                         *)
(* A handler of the program runs synchronously on one thread, so each      *)
(* handler is one action.  Inside a handler the code mutates the program   *)
(* state step by step; the operators below thread a record s through the   *)
(* calls: s.Win is the Win field of every viewport, s.Render the bounds    *)
(* stack of every viewport's RenderState and s.trace the sequence of calls *)
(* the handler has made so far, in program order.                          *)
EXTENDS Integers, Sequences, FiniteSets, TLC

VARIABLES
    Flag,      \* Flag[n]: the set of node flags set on node n (bitflag)
    Win,       \* Win[v]: the Win back-reference of viewport v (NoWin = nil)
    PWin,      \* the window the tree is attached to: what ParentWindow() returns
    Render,    \* Render[v]: the bounds (clip) stack of viewport v's RenderState
    Geom,      \* index of the layout the last layout pass produced
    call,      \* arguments and callee answers of the last SignalViewport2D / NodeSig call
    trace,     \* the calls that handler made, in order
    Pix,       \* pixel contents: what the widgets show, every viewport's Pixels, the window
    Buf,       \* buffers and boxes of every viewport: OSImage, Pixels, VpBBox, WinBBox, ViewBox
    Scene      \* a scene that changes: parents, children and flags of its nodes

vars == <<Flag, Win, PWin, Render, Geom, call, trace, Pix, Buf, Scene>>

\* the pixel contents and the buffers when they are not followed
NoPix == <<>>
NoBuf == <<>>
NoScene == <<>>

-----------------------------------------------------------------------------
(* Bounds of the model *)

\* at most this many nodes are deleted, destroyed or inside an update scope
\* at a time
MaxMarked == 1

-----------------------------------------------------------------------------
(* The node tree: a main viewport 1 holding a layout 2, which holds a      *)
(* widget 3 and a nested viewport 4, which holds a widget 5.               *)

NoNode == 0
NoWin == "nil"
TheWin == "win"

Nodes == 1 .. 5

\* Par[n]: the tree parent (ki Par field); the main viewport has none
Par == <<NoNode, 1, 2, 2, 4>>

Kids(n) == { k \in Nodes : Par[k] = n }

\* the nodes that are Viewport2D; KiToNode2D / AsViewport2D succeed on them
Viewports == {1, 4}

\* the nodes that are layout containers (they may be re-render anchors)
Layouts == {2}

IsViewport(n) == n \in Viewports

RECURSIVE AncestorsOf(_)
AncestorsOf(n) ==
    IF n = NoNode \/ Par[n] = NoNode THEN {}
    ELSE {Par[n]} \cup AncestorsOf(Par[n])

RECURSIVE SubtreeOf(_)
SubtreeOf(n) == {n} \cup UNION { SubtreeOf(k) : k \in Kids(n) }

RECURSIVE ParentViewportOf(_)
ParentViewportOf(n) ==
    IF n = NoNode \/ Par[n] = NoNode THEN NoNode
    ELSE IF IsViewport(Par[n]) THEN Par[n] ELSE ParentViewportOf(Par[n])

RECURSIVE SetToSeq(_)
SetToSeq(S) ==
    IF S = {} THEN <<>>
    ELSE LET m == CHOOSE x \in S : \A y \in S : x <= y
         IN  <<m>> \o SetToSeq(S \ {m})

\* the tree relations, tabulated once
AncestorTable == [n \in Nodes |-> AncestorsOf(n)]
SubtreeTable == [n \in Nodes |-> SubtreeOf(n)]
ViewportTable == [n \in Nodes |-> ParentViewportOf(n)]
KidTable == [n \in Nodes |-> SetToSeq(Kids(n))]
SubVpTable == [n \in Nodes |-> SetToSeq(SubtreeOf(n) \cap Viewports)]

Ancestors(n) == IF n = NoNode THEN {} ELSE AncestorTable[n]
Subtree(n) == SubtreeTable[n]

\* Node2DBase.Viewport: the nearest enclosing viewport, set by Init2DBase
ParentViewport(n) == IF n = NoNode THEN NoNode ELSE ViewportTable[n]

\* the children of n in child order
KidSeq(n) == KidTable[n]

\* Viewport2D.Fill of each viewport
Fill(v) == v = 1

-----------------------------------------------------------------------------
(* Geometry: image.Point / image.Rectangle of the Go standard library *)

Pt(x, y) == [X |-> x, Y |-> y]
Rect(x0, y0, x1, y1) == [Min |-> Pt(x0, y0), Max |-> Pt(x1, y1)]
ZP == Pt(0, 0)
ZR == Rect(0, 0, 0, 0)

Empty(r) == r.Min.X >= r.Max.X \/ r.Min.Y >= r.Max.Y

MaxOf(a, b) == IF a > b THEN a ELSE b
MinOf(a, b) == IF a < b THEN a ELSE b

Intersect(r, q) ==
    LET t == Rect(MaxOf(r.Min.X, q.Min.X), MaxOf(r.Min.Y, q.Min.Y),
                  MinOf(r.Max.X, q.Max.X), MinOf(r.Max.Y, q.Max.Y))
    IN  IF Empty(t) THEN ZR ELSE t

AddPt(r, p) == Rect(r.Min.X + p.X, r.Min.Y + p.Y, r.Max.X + p.X, r.Max.Y + p.Y)
SubPt(p, q) == Pt(p.X - q.X, p.Y - q.Y)

\* The layouts a completed layout pass leaves behind.  In layout 1 the
\* nested viewport is visible inside the main viewport; in layout 2 it has
\* been allocated a position outside the main viewport's window rectangle.
GeomIds == {1, 2}

\* More layouts for the render passes: in layout 3 the nested viewport
\* has an empty pixel rectangle, in layout 4 it lies partly outside the
\* main viewport to the lower right, in layout 5 to the upper left.
RenderGeomIds == GeomIds \cup {3, 4, 5}

SubVpMin(g) ==
    CASE g = 1 -> Pt(2, 2)
      [] g = 2 -> Pt(4, 4)
      [] g = 3 -> Pt(2, 2)
      [] g = 4 -> Pt(3, 3)
      [] g = 5 -> Pt(-1, -1)

\* LayData.AllocPos.ToPoint() of the nested viewport
AllocPosOf(g, v) == IF v = 1 THEN ZP ELSE SubVpMin(g)

\* ViewBox of each viewport: position in the parent viewport, and size
ViewBoxOf(g, v) ==
    IF v = 1 THEN [Min |-> ZP, Size |-> Pt(4, 4)]
    ELSE [Min |-> SubVpMin(g), Size |-> IF g = 3 THEN ZP ELSE Pt(2, 2)]

\* Pixels.Bounds() of each viewport
PixelsBounds(g, v) ==
    IF v = 1 THEN Rect(0, 0, 4, 4)
    ELSE IF g = 3 THEN ZR ELSE Rect(0, 0, 2, 2)

\* VpBBox of each node: its rectangle in its own viewport's pixels (a
\* viewport's VpBBox is its own pixel bounds, ComputeBBox2D)
VpBBoxOf(g, n) ==
    CASE n = 1 -> PixelsBounds(g, 1)
      [] n = 2 -> Rect(0, 0, 4, 4)
      [] n = 3 -> Rect(0, 0, 2, 2)
      [] n = 4 -> PixelsBounds(g, 4)
      [] n = 5 -> Rect(0, 0, 1, 1)

\* WinBBox of each node: its rectangle in window coordinates
WinBBoxOf(g, n) ==
    CASE n = 1 -> Rect(0, 0, 4, 4)
      [] n = 2 -> Rect(0, 0, 4, 4)
      [] n = 3 -> Rect(0, 0, 2, 2)
      [] n = 4 -> AddPt(PixelsBounds(g, 4), SubVpMin(g))
      [] n = 5 -> AddPt(Rect(0, 0, 1, 1), SubVpMin(g))

-----------------------------------------------------------------------------
(* Node flags (bitflag on Node.Flag) *)

IsDeleted(n) == "NodeDeleted" \in Flag[n]
IsDestroyed(n) == "NodeDestroyed" \in Flag[n]
IsUpdatingAtomic(n) == "Updating" \in Flag[n]
IsReRenderAnchor(n) == "ReRenderAnchor" \in Flag[n]
IsOverlay(n) == "Overlay" \in Flag[n]
IsPopup(vp) == "VpFlagPopup" \in Flag[vp]

-----------------------------------------------------------------------------
(* The record of one call made by a handler: `from` is the function whose  *)
(* body makes the call, `op` the function called, `node` its receiver (or  *)
(* the viewport whose pixels are uploaded or drawn), `to` the viewport     *)
(* drawn into, `r` the source rectangle and `at` the destination rectangle,*)
(* `val` the value Win.UpdateStart returned or Win.UpdateEnd was given.    *)

NoVal == -1

Call(from, op, node, to, r, at) ==
    [from |-> from, op |-> op, node |-> node, to |-> to, r |-> r, at |-> at,
     val |-> NoVal]

Log(s, from, op, node) ==
    [s EXCEPT !.trace = Append(@, Call(from, op, node, NoNode, ZR, ZR))]

LogR(s, from, op, node, to, r, at) ==
    [s EXCEPT !.trace = Append(@, Call(from, op, node, to, r, at))]

\* the window's update brackets still open after the calls of tr
WinDepth(tr) ==
    Cardinality({ i \in 1 .. Len(tr) : tr[i].op = "Win.UpdateStart" })
    - Cardinality({ i \in 1 .. Len(tr) : tr[i].op = "Win.UpdateEnd" })

\* Win.UpdateStart(): opens a bracket; the value it returns tells at which
\* depth the bracket was opened
WinUpdateStart(s, from, vp) ==
    [s EXCEPT !.trace = Append(@, [Call(from, "Win.UpdateStart", vp, NoNode, ZR, ZR)
                                     EXCEPT !.val = WinDepth(s.trace)])]

\* Win.UpdateEnd(updt): closes the bracket that returned updt
WinUpdateEnd(s, from, vp, updt) ==
    [s EXCEPT !.trace = Append(@, [Call(from, "Win.UpdateEnd", vp, NoNode, ZR, ZR)
                                     EXCEPT !.val = updt])]

\* the names of the window's upload entry points
UploadOps == {"Win.UploadAllViewports", "Win.UploadVp", "Win.UploadVpRegion"}

-----------------------------------------------------------------------------
(* Viewport2D methods *)

\* a variant of SetCurWin that takes the parent window as it is
SetCurWinAlways(s, vp) == [s EXCEPT !.Win[vp] = PWin]

\* SetCurWin: only update Win if the parent window is non-nil
SetCurWin(s, vp) ==
    IF PWin # NoWin THEN [s EXCEPT !.Win[vp] = PWin] ELSE s

\* UploadMainToWin: the main viewport asks its window to upload everything
UploadMainToWin(s, vp) ==
    IF s.Win[vp] = NoWin THEN s
    ELSE Log(s, "UploadMainToWin", "Win.UploadAllViewports", vp)

\* UploadToWin: upload the whole image of vp at WinBBox.Min
UploadToWin(s, vp) ==
    IF s.Win[vp] = NoWin THEN s
    ELSE LET updt == WinDepth(s.trace)
             s1 == WinUpdateStart(s, "UploadToWin", vp)
             s2 == LogR(s1, "UploadToWin", "Win.UploadVp", vp, NoNode,
                        PixelsBounds(Geom, vp),
                        AddPt(PixelsBounds(Geom, vp), WinBBoxOf(Geom, vp).Min))
         IN  WinUpdateEnd(s2, "UploadToWin", vp, updt)

\* ChildrenBBox2D: a viewport's is its VpBBox; another node's is the
\* rectangle its children may draw in
ChildrenBBox2D(n) == VpBBoxOf(Geom, n)

\* ViewBox2D.Bounds()
ViewBoxBounds(vb) ==
    Rect(vb.Min.X, vb.Min.Y, vb.Min.X + vb.Size.X, vb.Min.Y + vb.Size.Y)

\* the size of rectangle r, as a rectangle at the origin
SizeRect(r) == Rect(0, 0, r.Max.X - r.Min.X, r.Max.Y - r.Min.Y)

\* a variant of DrawIntoParent that clips overlays like other viewports
DrawIntoParentClipped(s, vp, parVp) ==
    IF IsOverlay(vp) /\ parVp = NoNode THEN s
    ELSE LET r  == IF IsOverlay(vp)
                   THEN AddPt(PixelsBounds(Geom, vp), AllocPosOf(Geom, vp))
                   ELSE ViewBoxBounds(ViewBoxOf(Geom, vp))
             nr == IF Par[vp] # NoNode
                   THEN Intersect(r, ChildrenBBox2D(Par[vp])) ELSE r
             sp == IF Par[vp] # NoNode THEN SubPt(nr.Min, r.Min) ELSE ZP
         IN  LogR(s, "DrawIntoParent", "draw.Draw", vp, parVp,
                  AddPt(SizeRect(nr), sp), nr)

\* a variant of DrawIntoParent that always copies from the source's origin
DrawIntoParentNoOffset(s, vp, parVp) ==
    IF IsOverlay(vp)
    THEN IF parVp = NoNode THEN s
         ELSE LET r == AddPt(PixelsBounds(Geom, vp), AllocPosOf(Geom, vp))
              IN  LogR(s, "DrawIntoParent", "draw.Draw", vp, parVp,
                       AddPt(SizeRect(r), ZP), r)
    ELSE LET r  == ViewBoxBounds(ViewBoxOf(Geom, vp))
             nr == IF Par[vp] # NoNode
                   THEN Intersect(r, ChildrenBBox2D(Par[vp])) ELSE r
         IN  LogR(s, "DrawIntoParent", "draw.Draw", vp, parVp, SizeRect(nr), nr)

\* DrawIntoParent: draw.Draw(parVp.Pixels, r, vp.Pixels, sp, draw.Over); the
\* logged call names the source rectangle (at sp, of the size of r) and
\* the destination rectangle r
DrawIntoParent(s, vp, parVp) ==
    IF IsOverlay(vp)
    THEN IF parVp = NoNode THEN s
         ELSE LET r == AddPt(PixelsBounds(Geom, vp), AllocPosOf(Geom, vp))
              IN  LogR(s, "DrawIntoParent", "draw.Draw", vp, parVp,
                       AddPt(SizeRect(r), ZP), r)
    ELSE LET r  == ViewBoxBounds(ViewBoxOf(Geom, vp))
             nr == IF Par[vp] # NoNode
                   THEN Intersect(r, ChildrenBBox2D(Par[vp])) ELSE r
             sp == IF Par[vp] # NoNode THEN SubPt(nr.Min, r.Min) ELSE ZP
         IN  LogR(s, "DrawIntoParent", "draw.Draw", vp, parVp,
                  AddPt(SizeRect(nr), sp), nr)

\* a variant of RenderViewport2D that looks at the parent viewport first
RenderViewport2DParentFirst(s, vp) ==
    IF ParentViewport(vp) # NoNode
    THEN DrawIntoParent(s, vp, ParentViewport(vp))
    ELSE IF IsPopup(vp) THEN UploadToWin(SetCurWin(s, vp), vp)
    ELSE UploadMainToWin(s, vp)

\* RenderViewport2D: upload to the window or draw into the parent viewport
RenderViewport2D(s, vp) ==
    IF IsPopup(vp) THEN UploadToWin(SetCurWin(s, vp), vp)
    ELSE IF ParentViewport(vp) # NoNode
         THEN DrawIntoParent(s, vp, ParentViewport(vp))
         ELSE UploadMainToWin(s, vp)

\* RenderState.PushBounds / PopBounds on the bounds stack of viewport v
RsPushBounds(s, v, r) ==
    LogR([s EXCEPT !.Render[v] = Append(@, r)],
         "PushBounds", "rs.PushBounds", v, NoNode, r, ZR)
RsPopBounds(s, v) ==
    Log([s EXCEPT !.Render[v] = IF Len(@) = 0 THEN @
                                ELSE SubSeq(@, 1, Len(@) - 1)],
        "PopBounds", "rs.PopBounds", v)

\* a variant of PushBounds without the test against the parent viewport
PushBoundsNoParentTest(s, vp) ==
    IF IsOverlay(vp)
    THEN [ok |-> TRUE,
          s |-> IF ParentViewport(vp) # NoNode
                THEN RsPushBounds(s, ParentViewport(vp),
                                  PixelsBounds(Geom, ParentViewport(vp)))
                ELSE s]
    ELSE IF Empty(VpBBoxOf(Geom, vp)) THEN [ok |-> FALSE, s |-> s]
    ELSE [ok |-> TRUE, s |-> RsPushBounds(s, vp, VpBBoxOf(Geom, vp))]

\* a variant of PushBounds whose overlays push their own rectangle, cut to
\* the parent's pixels
PushBoundsOverlayOwn(s, vp) ==
    IF IsOverlay(vp)
    THEN [ok |-> TRUE,
          s |-> IF ParentViewport(vp) # NoNode
                THEN RsPushBounds(s, ParentViewport(vp),
                         Intersect(AddPt(PixelsBounds(Geom, vp), AllocPosOf(Geom, vp)),
                                   PixelsBounds(Geom, ParentViewport(vp))))
                ELSE s]
    ELSE IF Empty(VpBBoxOf(Geom, vp)) THEN [ok |-> FALSE, s |-> s]
    ELSE IF ParentViewport(vp) # NoNode
            /\ Empty(Intersect(WinBBoxOf(Geom, vp),
                               WinBBoxOf(Geom, ParentViewport(vp))))
    THEN [ok |-> FALSE, s |-> s]
    ELSE [ok |-> TRUE, s |-> RsPushBounds(s, vp, VpBBoxOf(Geom, vp))]

\* PushBounds: [ok, s]: whether to proceed, and the state after the push
PushBounds(s, vp) ==
    IF IsOverlay(vp)
    THEN [ok |-> TRUE,
          s |-> IF ParentViewport(vp) # NoNode
                THEN RsPushBounds(s, ParentViewport(vp),
                                  PixelsBounds(Geom, ParentViewport(vp)))
                ELSE s]
    ELSE IF Empty(VpBBoxOf(Geom, vp)) THEN [ok |-> FALSE, s |-> s]
    ELSE IF ParentViewport(vp) # NoNode
            /\ Empty(Intersect(WinBBoxOf(Geom, vp),
                               WinBBoxOf(Geom, ParentViewport(vp))))
    THEN [ok |-> FALSE, s |-> s]
    ELSE [ok |-> TRUE, s |-> RsPushBounds(s, vp, VpBBoxOf(Geom, vp))]

PopBounds(s, vp) == RsPopBounds(s, vp)

FillViewport(s, vp) == Log(s, "Render2D", "FillViewport", vp)

RECURSIVE NodeRender2D(_, _), RenderKids(_, _), Render2D(_, _)

\* Render2DChildren: Render2D on every child, in order
RenderKids(s, ks) ==
    IF ks = <<>> THEN s ELSE RenderKids(NodeRender2D(s, Head(ks)), Tail(ks))

Render2DChildren(s, n) == RenderKids(s, KidSeq(n))

\* a variant of Render2D that composites before it renders the children
Render2DCompositeFirst(s, vp) ==
    LET pb == PushBounds(Log(s, "Render2DTree", "Render2D", vp), vp)
    IN  IF pb.ok
        THEN LET s1 == IF Fill(vp) THEN FillViewport(pb.s, vp) ELSE pb.s
                 s2 == RenderViewport2D(s1, vp)
                 s3 == Render2DChildren(s2, vp)
             IN  PopBounds(s3, vp)
        ELSE pb.s

\* Viewport2D.Render2D
Render2D(s, vp) ==
    LET pb == PushBounds(Log(s, "Render2DTree", "Render2D", vp), vp)
    IN  IF pb.ok
        THEN LET s1 == IF Fill(vp) THEN FillViewport(pb.s, vp) ELSE pb.s
                 s2 == Render2DChildren(s1, vp)
                 s3 == RenderViewport2D(s2, vp)
             IN  PopBounds(s3, vp)
        ELSE pb.s

\* Render2D of any node: a viewport's own method, else the widget paints
\* itself and then its children
NodeRender2D(s, n) ==
    IF IsViewport(n) THEN Render2D(s, n)
    ELSE Render2DChildren(Log(s, "Render2DTree", "Render2D", n), n)

-----------------------------------------------------------------------------
(* Tree passes of Node2DBase that the viewport code calls *)

RECURSIVE StyleVps(_, _)
\* Style2D of every viewport in vs: Viewport2D.Style2D sets the window
StyleVps(s, vs) ==
    IF vs = <<>> THEN s ELSE StyleVps(SetCurWin(s, Head(vs)), Tail(vs))

\* Viewport2D.Style2D: SetCurWin, then the widget styling
Style2D(s, vp) == SetCurWin(s, vp)

\* Viewport2D.Init2D: SetCurWin, then the base initialisation and the
\* connection of NodeSigHandler
Init2D(s, vp) == SetCurWin(s, vp)

\* Style2DTree: re-style n and everything below it
Style2DTree(s, from, n) ==
    StyleVps(Log(s, from, "Style2DTree", n), SubVpTable[n])

\* Layout2DTree: lay out n and everything below it
Layout2DTree(s, from, n) == Log(s, from, "Layout2DTree", n)

\* Render2DTree: render n and everything below it
Render2DTree(s, from, n) == NodeRender2D(Log(s, from, "Render2DTree", n), n)

\* ReRender2DTree: re-render the subtree of n without a new layout
ReRender2DTree(s, from, n) ==
    Render2DTree(Log(s, from, "ReRender2DTree", n), "ReRender2DTree", n)

\* FullRender2DTree: style, lay out and render the whole subtree of n
FullRender2DTree(s, from, n) ==
    LET s1 == Log(s, from, "FullRender2DTree", n)
        s2 == Style2DTree(s1, "FullRender2DTree", n)
        s3 == Layout2DTree(s2, "FullRender2DTree", n)
    IN  Render2DTree(s3, "FullRender2DTree", n)

\* ParentReRenderAnchor: the nearest ancestor flagged as re-render anchor
RECURSIVE ParentReRenderAnchor(_)
ParentReRenderAnchor(n) ==
    IF n = NoNode \/ Par[n] = NoNode THEN NoNode
    ELSE IF IsReRenderAnchor(Par[n]) THEN Par[n]
    ELSE ParentReRenderAnchor(Par[n])

-----------------------------------------------------------------------------
(* Partial re-renders *)

\* a variant of UploadRegion that uploads without looking at Win
UploadRegionAlways(s, from, vp, gn) ==
    LET updt == WinDepth(s.trace)
        s1 == WinUpdateStart(s, from, vp)
        s2 == LogR(s1, from, "Win.UploadVpRegion", vp, NoNode,
                   VpBBoxOf(Geom, gn), WinBBoxOf(Geom, gn))
    IN  WinUpdateEnd(s2, from, vp, updt)

\* a variant of UploadRegion that leaves its bracket open
UploadRegionNoEnd(s, from, vp, gn) ==
    IF s.Win[vp] # NoWin
    THEN LET s1 == WinUpdateStart(s, from, vp)
         IN  LogR(s1, from, "Win.UploadVpRegion", vp, NoNode,
                  VpBBoxOf(Geom, gn), WinBBoxOf(Geom, gn))
    ELSE s

\* the region upload that ends ReRender2DNode and ReRender2DAnchor
UploadRegion(s, from, vp, gn) ==
    IF s.Win[vp] # NoWin
    THEN LET updt == WinDepth(s.trace)
             s1 == WinUpdateStart(s, from, vp)
             s2 == LogR(s1, from, "Win.UploadVpRegion", vp, NoNode,
                        VpBBoxOf(Geom, gn), WinBBoxOf(Geom, gn))
         IN  WinUpdateEnd(s2, from, vp, updt)
    ELSE s

\* a variant of ReRender2DNode that uploads the viewport's whole rectangle
ReRender2DNodeWholeUpload(s, vp, gn) ==
    UploadRegion(Render2DTree(s, "ReRender2DNode", gn), "ReRender2DNode", vp, vp)

\* ReRender2DNode: Render2DTree on the node, then upload its rectangle
ReRender2DNode(s, vp, gn) ==
    UploadRegion(Render2DTree(s, "ReRender2DNode", gn), "ReRender2DNode", vp, gn)

\* a variant of ReRender2DAnchor that uploads before it re-renders
ReRender2DAnchorUploadFirst(s, vp, gn) ==
    ReRender2DTree(UploadRegion(s, "ReRender2DAnchor", vp, gn),
                   "ReRender2DAnchor", gn)

\* ReRender2DAnchor: ReRender2DTree on the anchor, then upload its rectangle
ReRender2DAnchor(s, vp, gn) ==
    UploadRegion(ReRender2DTree(s, "ReRender2DAnchor", gn),
                 "ReRender2DAnchor", vp, gn)

-----------------------------------------------------------------------------
(* Signals *)

Signals == {"NodeSignalUpdated", "NodeSignalDeleting"}

\* the update flags a NodeSignalUpdated signal carries as its data
ValUpdateFlagsMask == {"FieldUpdated", "PropUpdated"}
StruUpdateFlagsMask == {"ChildAdded", "ChildDeleted"}

HasMask(dflags, mask) == dflags \cap mask # {}

\* the payloads enumerated: no flag, value only, structure only, both
DataSets == {{}, {"FieldUpdated"}, {"ChildAdded"}, {"PropUpdated", "ChildDeleted"}}

\* Viewport2D.ReRender2D: a viewport can always re-render itself, no layout
ReRender2D(vp) == [node |-> vp, layout |-> FALSE]

\* the answers ReRender2D of node n may give: a viewport's own method, else
\* nil, or the node itself or an enclosing node below its viewport, each
\* with or without a layout request
ReRender2DAnswersOf(n) ==
    IF IsViewport(n) THEN {ReRender2D(n)}
    ELSE {[node |-> NoNode, layout |-> FALSE]}
         \cup { [node |-> m, layout |-> l] :
                  m \in ({n} \cup Ancestors(n)) \ ({ParentViewport(n)}
                         \cup Ancestors(ParentViewport(n))),
                  l \in BOOLEAN }

AnswerTable == [n \in Nodes |-> ReRender2DAnswersOf(n)]

ReRender2DAnswers(n) ==
    IF n = NoNode THEN {[node |-> NoNode, layout |-> FALSE]} ELSE AnswerTable[n]

\* a variant of fullRend that lets a value flag hide a structure flag
FullRendValueFirst(sig, data) ==
    IF sig = "NodeSignalUpdated"
    THEN LET vlupdt  == HasMask(data, ValUpdateFlagsMask)
             strupdt == HasMask(data, StruUpdateFlagsMask)
         IN  IF vlupdt THEN FALSE
             ELSE IF strupdt THEN TRUE
             ELSE FALSE
    ELSE TRUE

\* fullRend as SignalViewport2D computes it
FullRend(sig, data) ==
    IF sig = "NodeSignalUpdated"
    THEN LET vlupdt  == HasMask(data, ValUpdateFlagsMask)
             strupdt == HasMask(data, StruUpdateFlagsMask)
         IN  IF vlupdt /\ ~strupdt THEN FALSE
             ELSE IF strupdt THEN TRUE
             ELSE FALSE
    ELSE TRUE

\* a variant of the skip test that forgets destroyed senders
SkipSenderDeletedOnly(send) == IsDeleted(send)

\* the sender is skipped "for sure": it is deleted or destroyed
SkipSender(send) == IsDeleted(send) \/ IsDestroyed(send)

\* a variant of the update-scope test that never fires
SenderUpdatingNever(send) == FALSE

\* the sender is inside its own update scope (an error is logged)
SenderUpdating(send) == IsUpdatingAtomic(send)

\* a variant of the node branch that drops the layout request
NodeBranchNoLayout(s, vp, rr) == ReRender2DNode(s, vp, rr.node)

\* the branch taken when ReRender2D answered a node rr.node
NodeBranch(s, vp, rr) ==
    LET s1 == IF rr.layout
              THEN Layout2DTree(s, "SignalViewport2D", rr.node) ELSE s
    IN  ReRender2DNode(s1, vp, rr.node)

\* the branch taken when ReRender2D answered nil and an anchor was found
AnchorBranch(s, vp, send, anchor) ==
    ReRender2DAnchor(Style2DTree(s, "SignalViewport2D", send), vp, anchor)

\* a variant of the fallback that runs the full render of the viewport
FallbackBranchFull(s, vp, send) ==
    FullRender2DTree(Style2DTree(s, "SignalViewport2D", send),
                     "SignalViewport2D", vp)

\* the branch taken when ReRender2D answered nil and there is no anchor
FallbackBranch(s, vp, send) ==
    ReRender2DTree(Style2DTree(s, "SignalViewport2D", send),
                   "SignalViewport2D", vp)

\* SignalViewport2D(vpki, send, sig, data); rr is what send's ReRender2D
\* answers when it is asked
SignalViewport2D(s, vpki, send, sig, data, rr) ==
    IF vpki = NoNode \/ ~IsViewport(vpki) THEN s
    ELSE IF send = NoNode THEN s
    ELSE IF SkipSender(send) THEN s
    ELSE IF SenderUpdating(send) THEN s
    ELSE IF FullRend(sig, data)
    THEN FullRender2DTree(s, "SignalViewport2D", vpki)
    ELSE LET s0 == Log(s, "SignalViewport2D", "ReRender2D", send)
         IN  IF rr.node # NoNode THEN NodeBranch(s0, vpki, rr)
             ELSE LET anchor == ParentReRenderAnchor(send)
                  IN  IF anchor # NoNode
                      THEN AnchorBranch(s0, vpki, send, anchor)
                      ELSE FallbackBranch(s0, vpki, send)

\* a variant of the closure that forgets deleted viewports
NodeSigHandlerDestroyedOnly(s, vp) ==
    IF ~IsDestroyed(vp)
    THEN FullRender2DTree(s, "NodeSig", vp)
    ELSE s

\* the closure Init2D connects to the viewport's own NodeSig
NodeSigHandler(s, vp) ==
    IF ~IsDeleted(vp) /\ ~IsDestroyed(vp)
    THEN FullRender2DTree(s, "NodeSig", vp)
    ELSE s

-----------------------------------------------------------------------------
(* The state machine *)

NoAnswer == [node |-> NoNode, layout |-> FALSE, asked |-> FALSE]

NoCall == [fn |-> "none", vp |-> NoNode, send |-> NoNode,
           sig |-> "none", data |-> {}, rr |-> NoAnswer]

\* whether the handler asked the sender's ReRender2D
Asked(tr) == \E i \in 1 .. Len(tr) : tr[i].op = "ReRender2D"

\* the state a handler starts from
Start == [Win |-> Win, Render |-> Render, trace |-> <<>>]

\* the (receiver, sender) pairs of SignalViewport2D calls: every node is
\* connected to its enclosing viewport; the last two are the calls the
\* code guards against (a receiver that is no viewport, a nil sender)
CallPairs ==
    { <<ParentViewport(n), n>> : n \in { m \in Nodes : ParentViewport(m) # NoNode } }
    \cup { <<2, 3>>, <<1, NoNode>> }

\* the signal codes with their payloads: NodeSignalUpdated carries update
\* flags as its data, the other signals carry none
SigData ==
    { <<"NodeSignalUpdated", d>> : d \in DataSets }
    \cup { <<sg, {}>> : sg \in Signals \ {"NodeSignalUpdated"} }

\* no handler is running and none has left its log behind
Idle == call = NoCall

Init ==
    /\ Flag \in { [n \in Nodes |-> IF n \in A THEN {"ReRenderAnchor"} ELSE {}] :
                    A \in SUBSET Layouts }
    /\ Win = [v \in Viewports |-> NoWin]
    /\ PWin \in {NoWin, TheWin}
    /\ Render = [v \in Viewports |-> <<>>]
    /\ Geom \in GeomIds
    /\ call = NoCall
    /\ trace = <<>>
    /\ Pix = NoPix
    /\ Buf = NoBuf
    /\ Scene = NoScene

\* a node emits a signal that reaches SignalViewport2D of its viewport
Signal ==
    \E p \in CallPairs, sd \in SigData :
      \E rr \in ReRender2DAnswers(p[2]) :
        LET sig  == sd[1]
            data == sd[2]
            s    == SignalViewport2D(Start, p[1], p[2], sig, data, rr)
        IN  /\ Idle
            /\ Win' = s.Win
            /\ Render' = s.Render
            /\ trace' = s.trace
            /\ call' = [fn |-> "SignalViewport2D", vp |-> p[1], send |-> p[2],
                        sig |-> sig, data |-> data,
                        rr |-> IF Asked(s.trace)
                               THEN [node |-> rr.node, layout |-> rr.layout,
                                     asked |-> TRUE]
                               ELSE NoAnswer]
            /\ UNCHANGED <<Flag, PWin, Geom, Pix, Buf, Scene>>

\* a signal on a viewport's own NodeSig
NodeSig ==
    \E vp \in Viewports, sd \in SigData :
        LET sig  == sd[1]
            data == sd[2]
            s    == NodeSigHandler(Start, vp)
        IN  /\ Idle
            /\ Win' = s.Win
            /\ Render' = s.Render
            /\ trace' = s.trace
            /\ call' = [fn |-> "NodeSig", vp |-> vp, send |-> vp,
                        sig |-> sig, data |-> data, rr |-> NoAnswer]
            /\ UNCHANGED <<Flag, PWin, Geom, Pix, Buf, Scene>>

\* Style2D of a viewport, run by a style pass
Style2DPass ==
    \E vp \in Viewports :
        LET s == Style2D(Start, vp)
        IN  /\ Idle
            /\ Win' = s.Win
            /\ UNCHANGED <<Flag, PWin, Render, Geom, call, trace, Pix, Buf, Scene>>

Marked(f) ==
    { n \in Nodes : {"NodeDeleted", "NodeDestroyed", "Updating"} \cap f[n] # {} }

\* the tree changes between handlers
SetFlags(f) ==
    /\ Idle
    /\ f # Flag
    /\ Cardinality(Marked(f)) <= MaxMarked
    /\ Flag' = f
    /\ UNCHANGED <<Win, PWin, Render, Geom, call, trace, Pix, Buf, Scene>>

\* the handler has returned: its log is dropped
Return ==
    /\ ~Idle
    /\ call' = NoCall
    /\ trace' = <<>>
    /\ UNCHANGED <<Flag, Win, PWin, Render, Geom, Pix, Buf, Scene>>

\* a node is deleted from its parent (not yet destroyed)
Delete ==
    \E n \in Nodes : SetFlags([Flag EXCEPT ![n] = @ \cup {"NodeDeleted"}])

\* a node is destroyed, and its children with it
Destroy ==
    \E n \in Nodes :
        SetFlags([m \in Nodes |-> IF m \in Subtree(n)
                                  THEN Flag[m] \cup {"NodeDestroyed"}
                                  ELSE Flag[m]])

\* a node enters its update scope
UpdateStart ==
    \E n \in Nodes : SetFlags([Flag EXCEPT ![n] = @ \cup {"Updating"}])

\* a node leaves its update scope
UpdateEnd ==
    \E n \in Nodes : SetFlags([Flag EXCEPT ![n] = @ \ {"Updating"}])

Next ==
    \/ Signal
    \/ NodeSig
    \/ Style2DPass
    \/ Delete
    \/ Destroy
    \/ UpdateStart
    \/ UpdateEnd
    \/ Return

Spec == Init /\ [][Next]_vars

-----------------------------------------------------------------------------
(* Pixels: what the calls of a handler leave in the viewports' Pixels and  *)
(* on the window.  A pixel holds 0 (transparent) or the colour of the node *)
(* that painted it last.                                                   *)

Blank == 0

\* the widgets: the nodes that paint their own rectangle
Widgets == {3, 5}

\* the colour node n paints with while it shows value c
Colour(n, c) == 2 * n + c

Cells(r) == { Pt(x, y) : x \in r.Min.X .. (r.Max.X - 1),
                         y \in r.Min.Y .. (r.Max.Y - 1) }

InRect(p, r) ==
    /\ r.Min.X <= p.X /\ p.X < r.Max.X
    /\ r.Min.Y <= p.Y /\ p.Y < r.Max.Y

\* the window shows the rectangle of its main viewport
WinRect == PixelsBounds(Geom, 1)

\* the source pixel that lands on destination pixel p when the rectangle
\* starting at sp is copied to where dp is
SrcOf(p, dp, sp) == Pt(p.X - dp.X + sp.X, p.Y - dp.Y + sp.Y)

\* a widget's Render2D paints its rectangle in its viewport's Pixels
PaintWidget(px, n) ==
    [px EXCEPT !.buf[ParentViewport(n)] =
        [p \in DOMAIN @ |->
            IF InRect(p, VpBBoxOf(Geom, n)) THEN Colour(n, px.shown[n])
            ELSE @[p]]]

\* Paint.FillBox over the whole viewport with its background colour
PaintFill(px, vp) ==
    [px EXCEPT !.buf[vp] = [p \in DOMAIN @ |-> Colour(vp, 0)]]

\* draw.Draw(dst.Pixels, r, src.Pixels, sp, draw.Over), clipped to both images
PaintDraw(px, src, dst, sr, r) ==
    [px EXCEPT !.buf[dst] =
        [p \in DOMAIN @ |->
            LET q == SrcOf(p, r.Min, sr.Min)
            IN  IF /\ InRect(p, r)
                   /\ q \in DOMAIN px.buf[src]
                   /\ px.buf[src][q] # Blank
                THEN px.buf[src][q] ELSE @[p]]]

\* OSWin.Upload(dp, vp.OSImage, sr): copy rectangle sr of vp to the window
PaintUpload(px, vp, sr, dp) ==
    [px EXCEPT !.screen =
        [p \in DOMAIN @ |->
            LET q == SrcOf(p, dp, sr.Min)
            IN  IF InRect(q, sr) /\ q \in DOMAIN px.buf[vp]
                THEN px.buf[vp][q] ELSE @[p]]]

\* the effect of one logged call on the pixels
PaintCall(px, c) ==
    CASE c.op = "Render2D" /\ c.node \in Widgets -> PaintWidget(px, c.node)
      [] c.op = "FillViewport" -> PaintFill(px, c.node)
      [] c.op = "draw.Draw" -> PaintDraw(px, c.node, c.to, c.r, c.at)
      [] c.op \in {"Win.UploadVpRegion", "Win.UploadVp"} ->
            PaintUpload(px, c.node, c.r, c.at.Min)
      [] c.op = "Win.UploadAllViewports" ->
            PaintUpload(px, c.node, PixelsBounds(Geom, c.node), ZP)
      [] OTHER -> px

RECURSIVE Paint(_, _)
\* the effect of the calls of tr, in order
Paint(px, tr) ==
    IF tr = <<>> THEN px ELSE Paint(PaintCall(px, Head(tr)), Tail(tr))

\* empty buffers and an empty window, the widgets showing `shown`
BlankPix(shown) ==
    [shown  |-> shown,
     buf    |-> [v \in Viewports |-> [p \in Cells(PixelsBounds(Geom, v)) |-> Blank]],
     screen |-> [p \in Cells(WinRect) |-> Blank],
     main   |-> TRUE]

\* the pixels a full render of the whole tree leaves, started from nothing
ScratchPix(shown) ==
    Paint(BlankPix(shown),
          FullRender2DTree([Win |-> [v \in Viewports |-> PWin],
                            Render |-> [v \in Viewports |-> <<>>],
                            trace |-> <<>>], "Window", 1).trace)

\* the senders whose signals reach SignalViewport2D of their viewport
PixPairs == { <<ParentViewport(n), n>> : n \in { m \in Nodes : ParentViewport(m) # NoNode } }

\* the signals of a changed node: value-updated and structure-updated
PixSigData ==
    { <<"NodeSignalUpdated", {"FieldUpdated"}>>,
      <<"NodeSignalUpdated", {"ChildAdded"}>> }

\* a window showing the tree after its first full render
PixInit ==
    /\ Flag \in { [n \in Nodes |-> IF n \in A THEN {"ReRenderAnchor"} ELSE {}] :
                    A \in SUBSET Layouts }
    /\ PWin = TheWin
    /\ Win = [v \in Viewports |-> TheWin]
    /\ Render = [v \in Viewports |-> <<>>]
    /\ Geom \in GeomIds
    /\ call = NoCall
    /\ trace = <<>>
    /\ Pix = ScratchPix([n \in Widgets |-> 0])
    /\ Buf = NoBuf
    /\ Scene = NoScene

\* a node changes (a widget shows its other value) and its signal is
\* handled by SignalViewport2D of its viewport
PixSignal ==
    \E p \in PixPairs, sd \in PixSigData :
      \E rr \in ReRender2DAnswers(p[2]) :
        LET send == p[2]
            s    == SignalViewport2D(Start, p[1], send, sd[1], sd[2], rr)
            px   == [Pix EXCEPT !.shown = IF send \in Widgets
                                          THEN [@ EXCEPT ![send] = 1 - @]
                                          ELSE @,
                                !.main = @ /\ send \in {2, 3}]
        IN  /\ Win' = s.Win
            /\ Render' = s.Render
            /\ trace' = s.trace
            /\ call' = [fn |-> "SignalViewport2D", vp |-> p[1], send |-> send,
                        sig |-> sd[1], data |-> sd[2],
                        rr |-> IF Asked(s.trace)
                               THEN [node |-> rr.node, layout |-> rr.layout,
                                     asked |-> TRUE]
                               ELSE NoAnswer]
            /\ Pix' = Paint(px, s.trace)
            /\ UNCHANGED <<Flag, PWin, Geom, Buf, Scene>>

\* a viewport's own NodeSig fires and its closure runs
PixNodeSig ==
    \E vp \in Viewports :
        LET s == NodeSigHandler(Start, vp)
        IN  /\ Win' = s.Win
            /\ Render' = s.Render
            /\ trace' = s.trace
            /\ call' = [fn |-> "NodeSig", vp |-> vp, send |-> vp,
                        sig |-> "NodeSignalUpdated", data |-> {}, rr |-> NoAnswer]
            /\ Pix' = Paint([Pix EXCEPT !.main = @ /\ vp = 1], s.trace)
            /\ UNCHANGED <<Flag, PWin, Geom, Buf, Scene>>

PixNext == PixSignal \/ PixNodeSig

PixSpec == PixInit /\ [][PixNext]_vars

-----------------------------------------------------------------------------
(* Buffers and boxes.  Buf.vp[v] holds the fields of viewport v: OSImage,  *)
(* Pixels and the image of its render state (0 is nil, else an index into  *)
(* Buf.img), VpBBox, WinBBox, ViewBox and the LayData allocation, which is *)
(* fractional and kept in halves of a pixel.  Buf.img[i] is the image with *)
(* identity i, for the images some viewport still refers to.  Buf.panic is *)
(* set by a nil dereference.                                               *)

\* the side of the buffer BBox2D falls back to
DefaultSize == 64

NoImage == 0

\* Vec2D.ToPointFloor / ToPointCeil / IsZero on an allocation in halves
ToPointFloor(a) == Pt(a.X \div 2, a.Y \div 2)
ToPointCeil(a) == Pt((a.X + 1) \div 2, (a.Y + 1) \div 2)
IsZero(a) == a.X = 0 /\ a.Y = 0

\* image.Rectangle of an image of size sz: oswin images start at the origin
BoundsOf(sz) == Rect(0, 0, sz.X, sz.Y)

\* vp.Pixels.Bounds() of viewport v
PixBounds(b, v) == BoundsOf(b.img[b.vp[v].Pixels].size)

\* a viewport as the tree creates it: no image, all boxes zero
NewVp ==
    [OSImage |-> NoImage, Pixels |-> NoImage, RenderImage |-> NoImage,
     VpBBox |-> ZR, WinBBox |-> ZR,
     ViewBoxMin |-> ZP, ViewBoxSize |-> ZP,
     AllocPos |-> ZP, AllocSize |-> ZP]

\* a nil pointer was dereferenced
Panic(b) == [b EXCEPT !.panic = TRUE]

\* oswin.Image.Release on image i
Release(b, i) == [b EXCEPT !.img[i].released = TRUE]

\* the identity of the next image: one that no live image has
FreshImage(b) ==
    CHOOSE i \in 1 .. (Cardinality(DOMAIN b.img) + 1) : i \notin DOMAIN b.img

\* the images some viewport refers to; the others are garbage
LiveImages(b) ==
    UNION { {b.vp[v].OSImage, b.vp[v].Pixels, b.vp[v].RenderImage} : v \in Viewports }
    \ {NoImage}

\* the garbage collector drops the images nothing refers to
Collect(b) == [b EXCEPT !.img = [i \in LiveImages(b) |-> b.img[i]]]

\* a variant of Resize without the test for the size the buffer has
ResizeAlways(b, v, nwsz, ok) ==
    IF nwsz.X = 0 \/ nwsz.Y = 0 THEN b
    ELSE LET b1 == IF b.vp[v].OSImage # NoImage
                   THEN Release(b, b.vp[v].OSImage) ELSE b
             id == FreshImage(b)
         IN  IF ~ok THEN [b1 EXCEPT !.vp[v].OSImage = NoImage]
             ELSE [b1 EXCEPT
                     !.img = @ @@ (id :> [size |-> nwsz, released |-> FALSE,
                                          drawn |-> FALSE]),
                     !.vp[v].OSImage = id,
                     !.vp[v].Pixels = id,
                     !.vp[v].RenderImage = id,
                     !.vp[v].ViewBoxSize = nwsz]

\* Resize(nwsz); ok tells whether oswin.TheApp.NewImage succeeds
Resize(b, v, nwsz, ok) ==
    IF nwsz.X = 0 \/ nwsz.Y = 0 THEN b
    ELSE IF b.vp[v].Pixels # NoImage /\ b.img[b.vp[v].Pixels].size = nwsz
    THEN [b EXCEPT !.vp[v].ViewBoxSize = nwsz]
    ELSE LET b1 == IF b.vp[v].OSImage # NoImage
                   THEN Release(b, b.vp[v].OSImage) ELSE b
             id == FreshImage(b)
         IN  IF ~ok THEN [b1 EXCEPT !.vp[v].OSImage = NoImage]
             ELSE [b1 EXCEPT
                     !.img = @ @@ (id :> [size |-> nwsz, released |-> FALSE,
                                          drawn |-> FALSE]),
                     !.vp[v].OSImage = id,
                     !.vp[v].Pixels = id,
                     !.vp[v].RenderImage = id,
                     !.vp[v].ViewBoxSize = nwsz]

\* BBox2D: size the buffer from the allocation, then return Pixels.Bounds()
BBox2D(b, v, ok) ==
    LET b1 == IF b.vp[v].Pixels = NoImage \/ ~IsPopup(v)
              THEN IF ~IsZero(b.vp[v].AllocSize)
                   THEN Resize(b, v, ToPointCeil(b.vp[v].AllocSize), ok)
                   ELSE IF b.vp[v].Pixels = NoImage
                   THEN Resize(b, v, Pt(DefaultSize, DefaultSize), ok)
                   ELSE b
              ELSE b
    IN  IF b1.vp[v].Pixels = NoImage THEN Panic(b1) ELSE b1

\* Node2DBase.SetWinBBox: VpBBox moved by the parent viewport's window offset
SetWinBBox(b, v) ==
    [b EXCEPT !.vp[v].WinBBox =
        IF ParentViewport(v) # NoNode
        THEN AddPt(b.vp[v].VpBBox, b.vp[ParentViewport(v)].WinBBox.Min)
        ELSE b.vp[v].VpBBox]

\* a variant of ComputeBBox2D that adds ViewBox.Min before refreshing it
ComputeBBox2DStaleMin(b, v) ==
    IF b.vp[v].Pixels = NoImage THEN Panic(b)
    ELSE LET b1 == SetWinBBox([b EXCEPT !.vp[v].VpBBox = PixBounds(b, v)], v)
             b2 == [b1 EXCEPT !.vp[v].WinBBox = AddPt(@, b1.vp[v].ViewBoxMin)]
         IN  IF ~IsPopup(v)
             THEN [b2 EXCEPT !.vp[v].ViewBoxMin = ToPointFloor(b2.vp[v].AllocPos)]
             ELSE b2

\* ComputeBBox2D
ComputeBBox2D(b, v) ==
    IF b.vp[v].Pixels = NoImage THEN Panic(b)
    ELSE LET b1 == SetWinBBox([b EXCEPT !.vp[v].VpBBox = PixBounds(b, v)], v)
             b2 == IF ~IsPopup(v)
                   THEN [b1 EXCEPT !.vp[v].ViewBoxMin =
                                       ToPointFloor(b1.vp[v].AllocPos)]
                   ELSE b1
         IN  [b2 EXCEPT !.vp[v].WinBBox = AddPt(@, b2.vp[v].ViewBoxMin)]

RECURSIVE LayoutVps(_, _, _)
\* the layout pass over the viewports vs, parents first: Layout2DBase sets
\* BBox from BBox2D and then calls ComputeBBox2D
LayoutVps(b, vs, ok) ==
    IF vs = <<>> \/ b.panic THEN b
    ELSE LET b1 == BBox2D(b, Head(vs), ok)
             b2 == IF b1.panic THEN b1 ELSE ComputeBBox2D(b1, Head(vs))
         IN  LayoutVps(b2, Tail(vs), ok)

\* the part of RenderOverlays that works on the buffer: Resize(wsz), the
\* fill of Pixels with color.Transparent, and the children drawing into it
OverlayBuffer(b, v, wsz, ok) ==
    LET b1 == Resize(b, v, wsz, ok)
    IN  IF b1.vp[v].Pixels = NoImage THEN Panic(b1)
        ELSE [b1 EXCEPT !.img[b1.vp[v].Pixels].drawn = Kids(v) # {}]

-----------------------------------------------------------------------------
(* The buffer machine: the layout assigns allocations, and the viewport    *)
(* methods that size buffers and compute boxes run one at a time.          *)

\* the positions and sizes the layout allocates, in halves of a pixel: the
\* main viewport gets 4 x 4 pixels at (1.5, 1.5); the nested one nothing,
\* a size with one zero side, or 1.5 x 1.5 pixels at two positions
AllocChoices(v) ==
    IF v = 1 THEN {[pos |-> Pt(3, 3), size |-> Pt(8, 8)]}
    ELSE {[pos |-> Pt(0, 0), size |-> Pt(0, 0)],
          [pos |-> Pt(3, 3), size |-> Pt(0, 3)],
          [pos |-> Pt(3, 3), size |-> Pt(3, 3)],
          [pos |-> Pt(1, 0), size |-> Pt(3, 3)]}

\* the viewports whose buffer methods are also called outside a layout pass
BufTargets == {4}

\* the sizes Resize and RenderOverlays are called with
ResizeSizes == {Pt(0, 2), Pt(2, 2)}
WindowSizes == {Pt(2, 2)}

\* what is remembered of the last buffer operation: its arguments, whether
\* NewImage was allowed to succeed, and the buffers before it
BufCall(fn, v, sz, ok) ==
    [fn |-> fn, vp |-> v, size |-> sz, ok |-> ok, pre |-> Buf]

\* no buffer operation starts after a panic
BufReady == Idle /\ ~Buf.panic

BufInit ==
    /\ Flag \in { [n \in Nodes |-> IF n \in A THEN {"VpFlagPopup"} ELSE {}] :
                    A \in SUBSET {4} }
    /\ PWin = NoWin
    /\ Win = [v \in Viewports |-> NoWin]
    /\ Render = [v \in Viewports |-> <<>>]
    /\ Geom = 1
    /\ call = NoCall
    /\ trace = <<>>
    /\ Pix = NoPix
    /\ Buf = [vp |-> [v \in Viewports |-> NewVp], img |-> <<>>, panic |-> FALSE]
    /\ Scene = NoScene

\* the layout gives viewport v a new position and size
BufSetAlloc ==
    \E v \in Viewports :
      \E a \in AllocChoices(v) :
        /\ BufReady
        /\ Buf' = [Buf EXCEPT !.vp[v].AllocPos = a.pos,
                              !.vp[v].AllocSize = a.size]
        /\ Buf' # Buf
        /\ UNCHANGED <<Flag, Win, PWin, Render, Geom, call, trace, Pix, Scene>>

\* Resize is called directly
BufResize ==
    \E v \in BufTargets, sz \in ResizeSizes, ok \in BOOLEAN :
        /\ BufReady
        /\ Buf' = Collect(Resize(Buf, v, sz, ok))
        /\ call' = BufCall("Resize", v, sz, ok)
        /\ UNCHANGED <<Flag, Win, PWin, Render, Geom, trace, Pix, Scene>>

\* BBox2D is called on its own
BufBBox2D ==
    \E v \in BufTargets, ok \in BOOLEAN :
        /\ BufReady
        /\ Buf' = Collect(BBox2D(Buf, v, ok))
        /\ call' = BufCall("BBox2D", v, ZP, ok)
        /\ UNCHANGED <<Flag, Win, PWin, Render, Geom, trace, Pix, Scene>>

\* a layout pass over the whole tree
BufLayout ==
    \E ok \in BOOLEAN :
        /\ BufReady
        /\ Buf' = Collect(LayoutVps(Buf, SubVpTable[1], ok))
        /\ call' = BufCall("Layout2DTree", 1, ZP, ok)
        /\ UNCHANGED <<Flag, Win, PWin, Render, Geom, trace, Pix, Scene>>

\* RenderOverlays(wsz): the viewport and its children become overlays, the
\* buffer takes the window's size and is cleared, the children are rendered
BufRenderOverlays ==
    \E v \in BufTargets, wsz \in WindowSizes, ok \in BOOLEAN :
        LET b == OverlayBuffer(Buf, v, wsz, ok)
            s == IF b.panic THEN Start ELSE Render2DChildren(Start, v)
        IN  /\ BufReady
            /\ Flag' = [n \in Nodes |->
                          IF n = v \/ (~b.panic /\ n \in Kids(v))
                          THEN Flag[n] \cup {"Overlay"} ELSE Flag[n]]
            /\ Buf' = Collect(b)
            /\ Win' = s.Win
            /\ Render' = s.Render
            /\ trace' = s.trace
            /\ call' = BufCall("RenderOverlays", v, wsz, ok)
            /\ UNCHANGED <<PWin, Geom, Pix, Scene>>

BufNext ==
    \/ BufSetAlloc
    \/ BufResize
    \/ BufBBox2D
    \/ BufLayout
    \/ BufRenderOverlays
    \/ Return

BufSpec == BufInit /\ [][BufNext]_vars

-----------------------------------------------------------------------------
(* The render machine: render passes and the viewport's clip and drawing   *)
(* methods, on viewports that may be overlays or popups, in every layout.  *)

\* the bounds stack of a render state is followed up to this depth
MaxDepth == 2

\* what is remembered of the last render call: the viewport, the parent
\* passed to DrawIntoParent, the answer of PushBounds and the bounds stacks
\* before the call
RenderCall(fn, vp, par, ok) ==
    [fn |-> fn, vp |-> vp, par |-> par, ok |-> ok, pre |-> Render,
     win |-> Win, gn |-> NoNode]

\* the same for a partial re-render of node gn
ReRenderCall(fn, vp, gn) == [RenderCall(fn, vp, NoNode, TRUE) EXCEPT !.gn = gn]

\* the nodes a viewport is asked to re-render: itself and the nodes it holds
ReRenderNodes(vp) == {vp} \cup { n \in Nodes : ParentViewport(n) = vp }

\* the call leaves no bounds stack deeper than MaxDepth
WithinDepth(s) == \A w \in Viewports : Len(s.Render[w]) <= MaxDepth

RenderInit ==
    /\ Flag \in { [n \in Nodes |->
                     (IF n \in O THEN {"Overlay"} ELSE {})
                     \cup (IF n \in P THEN {"VpFlagPopup"} ELSE {})] :
                   O \in SUBSET Viewports, P \in SUBSET Viewports }
    /\ PWin \in {NoWin, TheWin}
    /\ Win = [v \in Viewports |-> PWin]
    /\ Render = [v \in Viewports |-> <<>>]
    /\ Geom \in RenderGeomIds
    /\ call = NoCall
    /\ trace = <<>>
    /\ Pix = NoPix
    /\ Buf = NoBuf
    /\ Scene = NoScene

\* Render2D of a viewport, as Render2DTree or RenderOverlays calls it
DoRender2D ==
    \E vp \in Viewports :
        LET s == Render2D(Start, vp)
        IN  /\ Idle
            /\ WithinDepth(s)
            /\ Win' = s.Win
            /\ Render' = s.Render
            /\ trace' = s.trace
            /\ call' = RenderCall("Render2D", vp, NoNode, TRUE)
            /\ UNCHANGED <<Flag, PWin, Geom, Pix, Buf, Scene>>

\* PushBounds of a viewport on its own
DoPushBounds ==
    \E vp \in Viewports :
        LET pb == PushBounds(Start, vp)
        IN  /\ Idle
            /\ WithinDepth(pb.s)
            /\ Render' = pb.s.Render
            /\ trace' = pb.s.trace
            /\ call' = RenderCall("PushBounds", vp, NoNode, pb.ok)
            /\ UNCHANGED <<Flag, Win, PWin, Geom, Pix, Buf, Scene>>

\* PopBounds of a viewport whose render state has bounds to pop
DoPopBounds ==
    \E vp \in Viewports :
        LET s == PopBounds(Start, vp)
        IN  /\ Idle
            /\ Render[vp] # <<>>
            /\ Render' = s.Render
            /\ trace' = s.trace
            /\ call' = RenderCall("PopBounds", vp, NoNode, TRUE)
            /\ UNCHANGED <<Flag, Win, PWin, Geom, Pix, Buf, Scene>>

\* DrawIntoParent with the parent viewport or, for an overlay, with nil
DoDrawIntoParent ==
    \E vp \in Viewports :
      \E par \in {NoNode, ParentViewport(vp)} :
        LET s == DrawIntoParent(Start, vp, par)
        IN  /\ Idle
            /\ par # NoNode \/ IsOverlay(vp)
            /\ trace' = s.trace
            /\ call' = RenderCall("DrawIntoParent", vp, par, TRUE)
            /\ UNCHANGED <<Flag, Win, PWin, Render, Geom, Pix, Buf, Scene>>

\* RenderViewport2D of a viewport on its own
DoRenderViewport2D ==
    \E vp \in Viewports :
        LET s == RenderViewport2D(Start, vp)
        IN  /\ Idle
            /\ Win' = s.Win
            /\ trace' = s.trace
            /\ call' = RenderCall("RenderViewport2D", vp, NoNode, TRUE)
            /\ UNCHANGED <<Flag, PWin, Render, Geom, Pix, Buf, Scene>>

\* UploadToWin or UploadMainToWin of a viewport
DoUpload ==
    \E vp \in Viewports, main \in BOOLEAN :
        LET s == IF main THEN UploadMainToWin(Start, vp)
                 ELSE UploadToWin(Start, vp)
        IN  /\ Idle
            /\ trace' = s.trace
            /\ call' = RenderCall(IF main THEN "UploadMainToWin"
                                  ELSE "UploadToWin", vp, NoNode, TRUE)
            /\ UNCHANGED <<Flag, Win, PWin, Render, Geom, Pix, Buf, Scene>>

\* Init2D or Style2D of a viewport
DoInitStyle2D ==
    \E vp \in Viewports, init \in BOOLEAN :
        LET s == IF init THEN Init2D(Start, vp) ELSE Style2D(Start, vp)
        IN  /\ Idle
            /\ Win' = s.Win
            /\ trace' = s.trace
            /\ call' = RenderCall(IF init THEN "Init2D" ELSE "Style2D",
                                  vp, NoNode, TRUE)
            /\ UNCHANGED <<Flag, PWin, Render, Geom, Pix, Buf, Scene>>

\* ReRender2DNode of a viewport on one of its nodes
DoReRender2DNode ==
    \E vp \in Viewports :
      \E gn \in ReRenderNodes(vp) :
        LET s == ReRender2DNode(Start, vp, gn)
        IN  /\ Idle
            /\ WithinDepth(s)
            /\ Win' = s.Win
            /\ Render' = s.Render
            /\ trace' = s.trace
            /\ call' = ReRenderCall("ReRender2DNode", vp, gn)
            /\ UNCHANGED <<Flag, PWin, Geom, Pix, Buf, Scene>>

\* ReRender2DAnchor of a viewport on one of its nodes
DoReRender2DAnchor ==
    \E vp \in Viewports :
      \E gn \in ReRenderNodes(vp) \ {vp} :
        LET s == ReRender2DAnchor(Start, vp, gn)
        IN  /\ Idle
            /\ WithinDepth(s)
            /\ Win' = s.Win
            /\ Render' = s.Render
            /\ trace' = s.trace
            /\ call' = ReRenderCall("ReRender2DAnchor", vp, gn)
            /\ UNCHANGED <<Flag, PWin, Geom, Pix, Buf, Scene>>

\* the tree is moved under a window, or taken out of its window
Reparent ==
    /\ Idle
    /\ PWin' = IF PWin = NoWin THEN TheWin ELSE NoWin
    /\ UNCHANGED <<Flag, Win, Render, Geom, call, trace, Pix, Buf, Scene>>

RenderNext ==
    \/ DoRender2D
    \/ DoPushBounds
    \/ DoPopBounds
    \/ DoDrawIntoParent
    \/ DoRenderViewport2D
    \/ DoUpload
    \/ DoInitStyle2D
    \/ DoReRender2DNode
    \/ DoReRender2DAnchor
    \/ Reparent
    \/ Return

RenderSpec == RenderInit /\ [][RenderNext]_vars

-----------------------------------------------------------------------------
(* Scenes that change: a viewport (node 1) and the nodes put under it.     *)
(* Scene.par and Scene.kids are ki.Node.Par and ki.Node.Kids, Scene.flag   *)
(* the node flags, Scene.inits and Scene.styles count the Init2D and       *)
(* Style2D calls a node has received.                                      *)

SNodes == 1 .. 5

\* the viewport of the scene, and the window that shows it
SRoot == 1
WinNode == 6

\* what each node is: a "ki" is a tree node that is no Node2D
Kind == <<"viewport", "layout", "widget", "widget", "ki">>

\* KiToNode2D(k) is not nil
IsNode2D(n) == Kind[n] # "ki"

NewScene(rootflags, rootpar) ==
    [par    |-> [n \in SNodes |-> IF n = SRoot THEN rootpar ELSE NoNode],
     kids   |-> [n \in SNodes |-> <<>>],
     flag   |-> [n \in SNodes |-> IF n = SRoot THEN rootflags ELSE {}],
     inits  |-> [n \in SNodes |-> 0],
     styles |-> [n \in SNodes |-> 0]]

\* the elements of a sequence
Range(q) == { q[i] : i \in 1 .. Len(q) }

RECURSIVE SDescOf(_, _)
\* the nodes below the nodes of set S
SDescOf(sc, S) ==
    LET below == UNION { Range(sc.kids[n]) : n \in S }
    IN  IF below = {} THEN {} ELSE below \cup SDescOf(sc, below)

SDesc(sc, n) == SDescOf(sc, {n})

\* n is the viewport or below it
Attached(sc, n) == n = SRoot \/ n \in SDesc(sc, SRoot)

SDestroyed(sc, n) == "NodeDestroyed" \in sc.flag[n]

\* ki.Node.AddChild: n becomes the last child of p
KiAddChild(sc, p, n) ==
    [sc EXCEPT !.par[n] = p,
               !.kids[p] = Append(@, n),
               !.flag[n] = @ \ {"NodeDeleted"}]

\* ki.Node.Destroy: the node and everything below it is destroyed, and
\* every node below it is deleted from its parent
KiDestroy(sc, n) ==
    LET below == SDesc(sc, n)
    IN  [sc EXCEPT
           !.flag = [m \in SNodes |->
                       IF m = n THEN @[m] \cup {"NodeDestroyed"}
                       ELSE IF m \in below
                       THEN @[m] \cup {"NodeDestroyed", "NodeDeleted"}
                       ELSE @[m]],
           !.par  = [m \in SNodes |-> IF m \in below THEN NoNode ELSE @[m]],
           !.kids = [m \in SNodes |-> IF m \in below \cup {n} THEN <<>> ELSE @[m]]]

RECURSIVE KiDestroyEach(_, _)
KiDestroyEach(sc, ks) ==
    IF ks = <<>> THEN sc ELSE KiDestroyEach(KiDestroy(sc, Head(ks)), Tail(ks))

\* ki.Node.DeleteChildren(destroy): the children are taken out of p, and
\* destroyed if destroy is set
KiDeleteChildren(sc, p, destroy) ==
    LET ks  == sc.kids[p]
        sc1 == [sc EXCEPT
                  !.kids[p] = <<>>,
                  !.par  = [m \in SNodes |-> IF m \in Range(ks) THEN NoNode ELSE @[m]],
                  !.flag = [m \in SNodes |-> IF m \in Range(ks)
                                             THEN @[m] \cup {"NodeDeleted"}
                                             ELSE @[m]]]
    IN  IF destroy THEN KiDestroyEach(sc1, ks) ELSE sc1

\* Viewport2D.DeletePopup
DeletePopup(sc, vp) ==
    LET sc1 == [sc EXCEPT !.par[vp] = NoNode]
        sc2 == IF "VpFlagPopupDestroyAll" \notin sc1.flag[vp]
               THEN IF Len(sc1.kids[vp]) = 1
                    THEN LET cli == sc1.kids[vp][1]
                         IN  IF Kind[cli] = "layout"
                             THEN KiDeleteChildren(sc1, cli, FALSE)
                             ELSE sc1
                    ELSE sc1
               ELSE sc1
    IN  KiDestroy(sc2, vp)

-----------------------------------------------------------------------------
(* The popup machine: a popup is built, shown by a window and closed.      *)

\* the nodes a popup is built from
PopupPool == {2, 3, 4}

SceneCall(fn, vp) == [fn |-> fn, vp |-> vp, pre |-> Scene]

PopupInit ==
    /\ Flag = [n \in Nodes |-> {}]
    /\ Win = [v \in Viewports |-> NoWin]
    /\ PWin = NoWin
    /\ Render = [v \in Viewports |-> <<>>]
    /\ Geom = 1
    /\ call = NoCall
    /\ trace = <<>>
    /\ Pix = NoPix
    /\ Buf = NoBuf
    /\ Scene \in { NewScene({"VpFlagPopup"} \cup f, WinNode) :
                     f \in SUBSET {"VpFlagPopupDestroyAll", "VpFlagMenu"} }

\* a node is added to the popup before it is shown
PopupAddChild ==
    \E n \in PopupPool :
      \E p \in SNodes :
        /\ Idle
        /\ ~SDestroyed(Scene, SRoot)
        /\ Attached(Scene, p) /\ ~Attached(Scene, n)
        /\ Scene' = KiAddChild(Scene, p, n)
        /\ UNCHANGED <<Flag, Win, PWin, Render, Geom, call, trace, Pix, Buf>>

\* the window closes the popup
PopupDelete ==
    /\ Idle
    /\ ~SDestroyed(Scene, SRoot)
    /\ Scene' = DeletePopup(Scene, SRoot)
    /\ call' = SceneCall("DeletePopup", SRoot)
    /\ UNCHANGED <<Flag, Win, PWin, Render, Geom, trace, Pix, Buf>>

PopupNext ==
    \/ PopupAddChild
    \/ PopupDelete
    \/ Return

PopupSpec == PopupInit /\ [][PopupNext]_vars

-----------------------------------------------------------------------------
(* The overlay machine: the window's overlay viewport gets and loses       *)
(* top-level nodes between the passes of RenderOverlays.                   *)

\* the Init2D calls of one node are counted up to this number
MaxInits == 2

\* the state a pass works on: the scene and the log of its calls
SStart == [sc |-> Scene, trace |-> <<>>]

SLog(s, op, n) ==
    [s EXCEPT !.trace = Append(@, Call("RenderOverlays", op, n, NoNode, ZR, ZR))]

\* Node2DBase.SetAsOverlay
SetAsOverlay(s, n) ==
    SLog([s EXCEPT !.sc.flag[n] = @ \cup {"Overlay"}], "SetAsOverlay", n)

\* Init2D and Style2D of a child, counted on the node
KidInit2D(s, n) == SLog([s EXCEPT !.sc.inits[n] = @ + 1], "Init2D", n)
KidStyle2D(s, n) == SLog([s EXCEPT !.sc.styles[n] = @ + 1], "Style2D", n)

\* a variant of the loop body that initialises the child on every pass
OverlayKidAlwaysInit(s, k) ==
    IF ~IsNode2D(k) THEN s
    ELSE SLog(KidStyle2D(KidInit2D(SetAsOverlay(s, k), k), k), "Render2D", k)

\* the body of the loop over vp.Kids in RenderOverlays
OverlayKid(s, k) ==
    IF ~IsNode2D(k) THEN s
    ELSE LET s1 == IF "Overlay" \notin s.sc.flag[k]
                   THEN KidStyle2D(KidInit2D(SetAsOverlay(s, k), k), k)
                   ELSE s
         IN  SLog(s1, "Render2D", k)

RECURSIVE OverlayKids(_, _)
OverlayKids(s, ks) ==
    IF ks = <<>> THEN s ELSE OverlayKids(OverlayKid(s, Head(ks)), Tail(ks))

\* Viewport2D.RenderOverlays: mark, resize, clear, then the children
RenderOverlays(s, vp) ==
    LET s1 == SetAsOverlay(s, vp)
        s2 == SLog(s1, "Resize", vp)
        s3 == SLog(s2, "Clear", vp)
    IN  OverlayKids(s3, s.sc.kids[vp])

\* the nodes put on the overlay viewport
OverlayPool == {2, 3, 4, 5}

OverlayInit ==
    /\ Flag = [n \in Nodes |-> {}]
    /\ Win = [v \in Viewports |-> NoWin]
    /\ PWin = NoWin
    /\ Render = [v \in Viewports |-> <<>>]
    /\ Geom = 1
    /\ call = NoCall
    /\ trace = <<>>
    /\ Pix = NoPix
    /\ Buf = NoBuf
    /\ Scene = NewScene({}, WinNode)

\* a node is put on the overlay viewport, or under one of its nodes
OverlayAddChild ==
    \E n \in OverlayPool :
      \E p \in SNodes :
        /\ Idle
        /\ Attached(Scene, p) /\ ~Attached(Scene, n)
        /\ Scene.par[n] = NoNode
        /\ IsNode2D(p)
        /\ Scene' = KiAddChild(Scene, p, n)
        /\ UNCHANGED <<Flag, Win, PWin, Render, Geom, call, trace, Pix, Buf>>

\* a top-level node is taken off the overlay viewport (not destroyed)
OverlayDeleteChild ==
    \E k \in Range(Scene.kids[SRoot]) :
        /\ Idle
        /\ Scene' = [Scene EXCEPT
                       !.kids[SRoot] = SelectSeq(@, LAMBDA m : m # k),
                       !.par[k] = NoNode,
                       !.flag[k] = @ \cup {"NodeDeleted"}]
        /\ UNCHANGED <<Flag, Win, PWin, Render, Geom, call, trace, Pix, Buf>>

\* the window runs a pass of RenderOverlays
OverlayPass ==
    LET s == RenderOverlays(SStart, SRoot)
    IN  /\ Idle
        /\ \A n \in SNodes : Scene.inits[n] < MaxInits
        /\ Scene' = s.sc
        /\ trace' = s.trace
        /\ call' = SceneCall("RenderOverlays", SRoot)
        /\ UNCHANGED <<Flag, Win, PWin, Render, Geom, Pix, Buf>>

OverlayNext ==
    \/ OverlayAddChild
    \/ OverlayDeleteChild
    \/ OverlayPass
    \/ Return

OverlaySpec == OverlayInit /\ [][OverlayNext]_vars

-----------------------------------------------------------------------------
(* KeyFuns names (keyfuns_string.go, generated by stringer).  A string is  *)
(* a sequence of characters.                                               *)

\* _KeyFuns_name
KeyFuns_name ==
    << "K", "e", "y", "F", "u", "n", "N", "i", "l", "K", "e", "y",
       "F", "u", "n", "M", "o", "v", "e", "U", "p", "K", "e", "y",
       "F", "u", "n", "M", "o", "v", "e", "D", "o", "w", "n", "K",
       "e", "y", "F", "u", "n", "M", "o", "v", "e", "R", "i", "g",
       "h", "t", "K", "e", "y", "F", "u", "n", "M", "o", "v", "e",
       "L", "e", "f", "t", "K", "e", "y", "F", "u", "n", "P", "a",
       "g", "e", "U", "p", "K", "e", "y", "F", "u", "n", "P", "a",
       "g", "e", "D", "o", "w", "n", "K", "e", "y", "F", "u", "n",
       "P", "a", "g", "e", "R", "i", "g", "h", "t", "K", "e", "y",
       "F", "u", "n", "P", "a", "g", "e", "L", "e", "f", "t", "K",
       "e", "y", "F", "u", "n", "H", "o", "m", "e", "K", "e", "y",
       "F", "u", "n", "E", "n", "d", "K", "e", "y", "F", "u", "n",
       "D", "o", "c", "H", "o", "m", "e", "K", "e", "y", "F", "u",
       "n", "D", "o", "c", "E", "n", "d", "K", "e", "y", "F", "u",
       "n", "W", "o", "r", "d", "R", "i", "g", "h", "t", "K", "e",
       "y", "F", "u", "n", "W", "o", "r", "d", "L", "e", "f", "t",
       "K", "e", "y", "F", "u", "n", "F", "o", "c", "u", "s", "N",
       "e", "x", "t", "K", "e", "y", "F", "u", "n", "F", "o", "c",
       "u", "s", "P", "r", "e", "v", "K", "e", "y", "F", "u", "n",
       "E", "n", "t", "e", "r", "K", "e", "y", "F", "u", "n", "A",
       "c", "c", "e", "p", "t", "K", "e", "y", "F", "u", "n", "C",
       "a", "n", "c", "e", "l", "S", "e", "l", "e", "c", "t", "K",
       "e", "y", "F", "u", "n", "S", "e", "l", "e", "c", "t", "M",
       "o", "d", "e", "K", "e", "y", "F", "u", "n", "S", "e", "l",
       "e", "c", "t", "A", "l", "l", "K", "e", "y", "F", "u", "n",
       "A", "b", "o", "r", "t", "K", "e", "y", "F", "u", "n", "E",
       "d", "i", "t", "I", "t", "e", "m", "K", "e", "y", "F", "u",
       "n", "C", "o", "p", "y", "K", "e", "y", "F", "u", "n", "C",
       "u", "t", "K", "e", "y", "F", "u", "n", "P", "a", "s", "t",
       "e", "K", "e", "y", "F", "u", "n", "B", "a", "c", "k", "s",
       "p", "a", "c", "e", "K", "e", "y", "F", "u", "n", "B", "a",
       "c", "k", "s", "p", "a", "c", "e", "W", "o", "r", "d", "K",
       "e", "y", "F", "u", "n", "D", "e", "l", "e", "t", "e", "K",
       "e", "y", "F", "u", "n", "D", "e", "l", "e", "t", "e", "W",
       "o", "r", "d", "K", "e", "y", "F", "u", "n", "K", "i", "l",
       "l", "K", "e", "y", "F", "u", "n", "D", "u", "p", "l", "i",
       "c", "a", "t", "e", "K", "e", "y", "F", "u", "n", "U", "n",
       "d", "o", "K", "e", "y", "F", "u", "n", "R", "e", "d", "o",
       "K", "e", "y", "F", "u", "n", "I", "n", "s", "e", "r", "t",
       "K", "e", "y", "F", "u", "n", "I", "n", "s", "e", "r", "t",
       "A", "f", "t", "e", "r", "K", "e", "y", "F", "u", "n", "G",
       "o", "G", "i", "E", "d", "i", "t", "o", "r", "K", "e", "y",
       "F", "u", "n", "Z", "o", "o", "m", "O", "u", "t", "K", "e",
       "y", "F", "u", "n", "Z", "o", "o", "m", "I", "n", "K", "e",
       "y", "F", "u", "n", "P", "r", "e", "f", "s", "K", "e", "y",
       "F", "u", "n", "R", "e", "f", "r", "e", "s", "h", "K", "e",
       "y", "F", "u", "n", "R", "e", "c", "e", "n", "t", "e", "r",
       "K", "e", "y", "F", "u", "n", "C", "o", "m", "p", "l", "e",
       "t", "e", "K", "e", "y", "F", "u", "n", "S", "e", "a", "r",
       "c", "h", "K", "e", "y", "F", "u", "n", "F", "i", "n", "d",
       "K", "e", "y", "F", "u", "n", "J", "u", "m", "p", "K", "e",
       "y", "F", "u", "n", "H", "i", "s", "t", "P", "r", "e", "v",
       "K", "e", "y", "F", "u", "n", "H", "i", "s", "t", "N", "e",
       "x", "t", "K", "e", "y", "F", "u", "n", "s", "N" >>

\* _KeyFuns_index: the table is indexed from 0 in the source, from 1 here
KeyFuns_index ==
    << 0, 9, 21, 35, 50, 64, 76, 90, 105, 119, 129, 138,
       151, 163, 178, 192, 207, 222, 233, 245, 263, 279, 294, 305,
       319, 329, 338, 349, 364, 383, 395, 411, 421, 436, 446, 456,
       468, 485, 501, 514, 526, 537, 550, 564, 578, 590, 600, 610,
       624, 638, 646 >>

\* len(_KeyFuns_index) - 1
NumNames == Len(KeyFuns_index) - 1

\* _KeyFuns_name[_KeyFuns_index[j]:_KeyFuns_index[j+1]]
NameAt(j) == SubSeq(KeyFuns_name, KeyFuns_index[j + 1] + 1, KeyFuns_index[j + 2])

Digit(d) == <<"0", "1", "2", "3", "4", "5", "6", "7", "8", "9">>[d + 1]

RECURSIVE Digits(_)
\* the decimal digits of n >= 0
Digits(n) == IF n < 10 THEN <<Digit(n)>> ELSE Digits(n \div 10) \o <<Digit(n % 10)>>

\* strconv.FormatInt(int64(i), 10)
FormatInt(i) == IF i < 0 THEN <<"-">> \o Digits(0 - i) ELSE Digits(i)

\* the text "KeyFuns("
KeyFunsOpen == <<"K", "e", "y", "F", "u", "n", "s", "(">>

\* KeyFuns.String
String(i) ==
    IF i < 0 \/ i >= NumNames
    THEN KeyFunsOpen \o FormatInt(i) \o <<")">>
    ELSE NameAt(i)

RECURSIVE FromStringFrom(_, _, _)
\* the loop of FromString, from index j on: the value found and the error
FromStringFrom(recv, s, j) ==
    IF j >= NumNames THEN [val |-> recv, err |-> TRUE]
    ELSE IF s = NameAt(j) THEN [val |-> j, err |-> FALSE]
    ELSE FromStringFrom(recv, s, j + 1)

RECURSIVE FromStringPrefixFrom(_, _, _)
\* the loop of a FromString that takes a name beginning with s for s
FromStringPrefixFrom(recv, s, j) ==
    IF j >= NumNames THEN [val |-> recv, err |-> TRUE]
    ELSE IF Len(s) <= Len(NameAt(j)) /\ s = SubSeq(NameAt(j), 1, Len(s))
         THEN [val |-> j, err |-> FALSE]
    ELSE FromStringPrefixFrom(recv, s, j + 1)

\* a variant of FromString that compares with strings.HasPrefix, not ==
FromStringHasPrefix(recv, s) == FromStringPrefixFrom(recv, s, 0)

\* a variant of FromString whose loop starts at the second name
FromStringSkipFirst(recv, s) == FromStringFrom(recv, s, 1)

\* KeyFuns.FromString on a receiver holding recv: the value the receiver
\* holds afterwards, and whether an error was returned
FromString(recv, s) == FromStringFrom(recv, s, 0)

\* how far outside 0 .. NumNames - 1 the values tried lie
KeyMargin == 12

KeyRange == (0 - KeyMargin) .. (NumNames - 1 + KeyMargin)

\* the values the receiver of FromString holds before the call
Receivers == {0, 7}

KeyInit ==
    /\ Flag = [n \in Nodes |-> {}]
    /\ Win = [v \in Viewports |-> NoWin]
    /\ PWin = NoWin
    /\ Render = [v \in Viewports |-> <<>>]
    /\ Geom = 1
    /\ call = NoCall
    /\ trace = <<>>
    /\ Pix = NoPix
    /\ Buf = NoBuf
    /\ Scene = NoScene

\* String(i), and FromString of the name it gave
KeyRoundTrip ==
    \E i \in KeyRange, recv \in Receivers :
        /\ Idle
        /\ call' = [fn |-> "RoundTrip", i |-> i, recv |-> recv,
                    name |-> String(i),
                    res |-> FromString(recv, String(i))]
        /\ UNCHANGED <<Flag, Win, PWin, Render, Geom, trace, Pix, Buf, Scene>>

\* every beginning of every name of the table, the empty string and the
\* whole name included
NamePrefixes ==
    UNION { { SubSeq(NameAt(j), 1, k) : k \in 0 .. Len(NameAt(j)) } :
            j \in 0 .. (NumNames - 1) }

\* every name of the table with one more character after it
NamesExtended ==
    { NameAt(j) \o <<c>> : j \in 0 .. (NumNames - 1), c \in {" ", "N", ")"} }

\* what String gives for the values tried: names, and "KeyFuns(<i>)"
StringResults == { String(i) : i \in KeyRange }

\* the strings handed to FromString
ParseInputs == NamePrefixes \cup NamesExtended \cup StringResults

\* FromString(s) on a receiver holding recv
KeyFromString ==
    \E s \in ParseInputs, recv \in Receivers :
        /\ Idle
        /\ call' = [fn |-> "FromString", s |-> s, recv |-> recv,
                    res |-> FromString(recv, s)]
        /\ UNCHANGED <<Flag, Win, PWin, Render, Geom, trace, Pix, Buf, Scene>>

KeyNext ==
    \/ KeyRoundTrip
    \/ KeyFromString
    \/ Return

KeySpec == KeyInit /\ [][KeyNext]_vars

-----------------------------------------------------------------------------
(* Reading the log of the last handler *)

Idx == 1 .. Len(trace)

\* the positions of the calls of op made by the body of from
CallsOf(from, op) == { i \in Idx : trace[i].from = from /\ trace[i].op = op }

\* the positions of all calls of op
AllCallsOf(op) == { i \in Idx : trace[i].op = op }

\* the positions of the window uploads
Uploads == { i \in Idx : trace[i].op \in UploadOps }

\* the last handler was SignalViewport2D, on a viewport, from a node
ValidCall ==
    /\ call.fn = "SignalViewport2D"
    /\ call.vp \in Viewports
    /\ call.send \in Nodes

VpLive == {"NodeDeleted", "NodeDestroyed"} \cap Flag[call.vp] = {}
SenderGone == {"NodeDeleted", "NodeDestroyed"} \cap Flag[call.send] # {}
SenderInUpdate == "Updating" \in Flag[call.send]
SenderActive == ~SenderGone /\ ~SenderInUpdate

ValUpd == call.data \cap {"FieldUpdated", "PropUpdated"} # {}
StruUpd == call.data \cap {"ChildAdded", "ChildDeleted"} # {}
ValueUpdated == call.sig = "NodeSignalUpdated" /\ ValUpd /\ ~StruUpd

\* the re-render anchors above the sender, and the nearest of them
AnchorsAbove == { a \in Ancestors(call.send) : "ReRenderAnchor" \in Flag[a] }
NearestAnchor ==
    CHOOSE a \in AnchorsAbove : \A b \in AnchorsAbove \ {a} : b \in Ancestors(a)

\* the five actions, each recognised by the call that only it makes
SelIgnore == \A i \in Idx : trace[i].op = "ReRender2D"
SelFull == CallsOf("SignalViewport2D", "FullRender2DTree") # {}
SelNode == CallsOf("ReRender2DNode", "Render2DTree") # {}
SelAnchor == CallsOf("ReRender2DAnchor", "ReRender2DTree") # {}
SelFallback == CallsOf("SignalViewport2D", "ReRender2DTree") # {}

Selected ==
    {a \in {"Ignore"} : SelIgnore} \cup {a \in {"Full"} : SelFull}
    \cup {a \in {"Node"} : SelNode} \cup {a \in {"Anchor"} : SelAnchor}
    \cup {a \in {"Fallback"} : SelFallback}

\* the action the precedence of the classifier asks for, first match first
ExpectedAction ==
    IF ~VpLive \/ SenderGone \/ SenderInUpdate THEN "Ignore"
    ELSE IF StruUpd \/ call.sig # "NodeSignalUpdated" THEN "Full"
    ELSE IF call.rr.node # NoNode THEN "Node"
    ELSE IF AnchorsAbove # {} THEN "Anchor"
    ELSE "Fallback"

-----------------------------------------------------------------------------
(* Claims *)

\* C1: every call of SignalViewport2D on a viewport from a node selects
\* exactly one of the five actions, and it is the first one in the
\* precedence Ignore, full tree, node, anchor, fallback whose rule matches.
C1_ExactlyOneAction ==
    ValidCall =>
        /\ Cardinality(Selected) = 1
        /\ Selected = {ExpectedAction}

\* C1 on live viewports: there the one action selected is the one the
\* precedence asks for
C1_OnLiveViewport ==
    (ValidCall /\ VpLive) =>
        /\ Cardinality(Selected) = 1
        /\ Selected = {ExpectedAction}

\* on every viewport exactly one action is selected
C1_OneSelected == ValidCall => Cardinality(Selected) = 1

\* an anchor re-render was selected for a value update on a live viewport
C1_LiveWitness ==
    /\ ValidCall /\ VpLive /\ SenderActive /\ ValueUpdated
    /\ Selected = {"Anchor"}

\* C2: a call of SignalViewport2D whose sender is deleted or destroyed makes
\* no style, layout, render or upload call and leaves the viewports' Win,
\* their bounds stacks, the flags and the layout unchanged, whatever the
\* signal and its payload.
C2_GoneSenderIgnored ==
    [][ ( /\ Idle
          /\ call'.fn = "SignalViewport2D"
          /\ call'.vp \in Viewports
          /\ call'.send \in Nodes
          /\ {"NodeDeleted", "NodeDestroyed"} \cap Flag[call'.send] # {} )
        => ( /\ trace' = <<>>
             /\ UNCHANGED <<Flag, Win, PWin, Render, Geom>> ) ]_vars

\* C2 witness: a destroyed node sent a structure update to a viewport that
\* has a window, and nothing was done
C2_Witness ==
    /\ ValidCall /\ VpLive
    /\ "NodeDestroyed" \in Flag[call.send]
    /\ StruUpd
    /\ Win[call.vp] # NoWin
    /\ trace = <<>>

\* C3: a signal delivered to a viewport that is deleted or destroyed is
\* ignored by SignalViewport2D and by the viewport's own NodeSig handler.
C3_GoneViewportIgnored ==
    ( /\ call.fn \in {"SignalViewport2D", "NodeSig"}
      /\ call.vp \in Viewports
      /\ ~VpLive )
    => trace = <<>>

\* C4: a call of SignalViewport2D whose sender is inside its own update
\* scope makes no style, layout, render or upload call and changes nothing.
C4_UpdatingSenderIgnored ==
    [][ ( /\ Idle
          /\ call'.fn = "SignalViewport2D"
          /\ call'.vp \in Viewports
          /\ call'.send \in Nodes
          /\ "Updating" \in Flag[call'.send] )
        => ( /\ trace' = <<>>
             /\ UNCHANGED <<Flag, Win, PWin, Render, Geom>> ) ]_vars

\* C4 witness: a live node inside its update scope sent a value update to a
\* viewport that has a window, and nothing was done
C4_Witness ==
    /\ ValidCall /\ VpLive /\ ~SenderGone /\ SenderInUpdate
    /\ ValueUpdated
    /\ Win[call.vp] # NoWin
    /\ trace = <<>>

NodeCase ==
    /\ ValidCall /\ SenderActive /\ ValueUpdated
    /\ call.rr.asked /\ call.rr.node # NoNode

\* C6: when the signal is value-updated and ReRender2D answers a node N,
\* Render2DTree runs once, on N, and renders nodes of N's subtree only; every
\* window upload is the region upload of N.VpBBox of the viewport at
\* N.WinBBox; no FullRender2DTree, ReRender2DTree or whole upload is made.
C6_NodeReRenderOnly ==
    NodeCase =>
        LET N == call.rr.node
        IN  /\ Cardinality(AllCallsOf("Render2DTree")) = 1
            /\ \A i \in AllCallsOf("Render2DTree") :
                 trace[i].node = N /\ trace[i].from = "ReRender2DNode"
            /\ \E i \in AllCallsOf("Render2D") : trace[i].node = N
            /\ \A i \in AllCallsOf("Render2D") : trace[i].node \in Subtree(N)
            /\ \A i \in Uploads :
                 /\ trace[i].op = "Win.UploadVpRegion"
                 /\ trace[i].node = call.vp
                 /\ trace[i].r = VpBBoxOf(Geom, N)
                 /\ trace[i].at = WinBBoxOf(Geom, N)
            /\ AllCallsOf("FullRender2DTree") = {}
            /\ AllCallsOf("ReRender2DTree") = {}

\* C6 witness: a node other than the sender was re-rendered and its
\* rectangle uploaded
C6_Witness ==
    /\ NodeCase
    /\ call.rr.node # call.send
    /\ Uploads # {}

\* C7 as claimed: the node re-render never runs a layout pass.
C7_NoLayoutOnNodeReRender ==
    NodeCase => AllCallsOf("Layout2DTree") = {}

\* C7 amended: the node re-render runs a layout pass exactly when the
\* sender's ReRender2D asks for one, then once, on the answered node and
\* before the repaint; a viewport's ReRender2D never asks for one.
C7_LayoutOnlyWhenAsked ==
    NodeCase =>
        /\ AllCallsOf("Layout2DTree") # {} <=> call.rr.layout
        /\ Cardinality(AllCallsOf("Layout2DTree")) <= 1
        /\ \A i \in AllCallsOf("Layout2DTree") :
             /\ trace[i].node = call.rr.node
             /\ trace[i].from = "SignalViewport2D"
             /\ \A j \in AllCallsOf("Render2DTree") : i < j
        /\ IsViewport(call.send) =>
             /\ call.rr.node = call.send
             /\ AllCallsOf("Layout2DTree") = {}

\* C7 witness: a nested viewport sent a value update and was repainted
\* without a layout pass
C7_Witness ==
    /\ NodeCase
    /\ IsViewport(call.send)
    /\ SelNode
    /\ AllCallsOf("Layout2DTree") = {}

\* the sender's ReRender2D answered nil for a value update
NilCase ==
    /\ ValidCall /\ SenderActive /\ ValueUpdated
    /\ call.rr.asked /\ call.rr.node = NoNode

\* C8: when ReRender2D answers nil and an anchor A is found, Style2DTree runs
\* on the sender (and on nothing else) first, then ReRender2DTree on A, then
\* the only upload, of A.VpBBox at A.WinBBox, made when the viewport has a
\* window; ReRender2DTree of the viewport root and FullRender2DTree are not
\* called.
C8_AnchorOrder ==
    (NilCase /\ AnchorsAbove # {}) =>
        LET A == NearestAnchor
        IN  /\ Cardinality(AllCallsOf("Style2DTree")) = 1
            /\ Cardinality(AllCallsOf("ReRender2DTree")) = 1
            /\ \A i \in AllCallsOf("Style2DTree") :
                 /\ trace[i].node = call.send
                 /\ \A j \in AllCallsOf("ReRender2DTree") : i < j
            /\ \A j \in AllCallsOf("ReRender2DTree") :
                 /\ trace[j].node = A
                 /\ trace[j].from = "ReRender2DAnchor"
            /\ \A k \in Uploads :
                 /\ trace[k].op = "Win.UploadVpRegion"
                 /\ trace[k].node = call.vp
                 /\ trace[k].r = VpBBoxOf(Geom, A)
                 /\ trace[k].at = WinBBoxOf(Geom, A)
                 /\ \A j \in AllCallsOf("ReRender2DTree") \cup AllCallsOf("Render2D") :
                      j < k
            /\ Win[call.vp] # NoWin => Cardinality(Uploads) = 1
            /\ AllCallsOf("FullRender2DTree") = {}

\* C8 witness: the anchor was re-rendered and its rectangle uploaded
C8_Witness ==
    /\ NilCase /\ AnchorsAbove # {}
    /\ SelAnchor
    /\ Uploads # {}

\* C9: when ReRender2D answers nil and no ancestor is an anchor, the fallback
\* is taken: Style2DTree on the sender first, then ReRender2DTree on the
\* viewport root, and never FullRender2DTree.
C9_FallbackOrder ==
    (NilCase /\ AnchorsAbove = {}) =>
        /\ Cardinality(AllCallsOf("Style2DTree")) = 1
        /\ Cardinality(AllCallsOf("ReRender2DTree")) = 1
        /\ \A i \in AllCallsOf("Style2DTree") :
             /\ trace[i].node = call.send
             /\ trace[i].from = "SignalViewport2D"
             /\ \A j \in AllCallsOf("ReRender2DTree") : i < j
        /\ \A j \in AllCallsOf("ReRender2DTree") :
             /\ trace[j].node = call.vp
             /\ trace[j].from = "SignalViewport2D"
        /\ AllCallsOf("FullRender2DTree") = {}

\* C9 witness: the fallback re-rendered a nested viewport from its root
C9_Witness ==
    /\ NilCase /\ AnchorsAbove = {}
    /\ SelFallback
    /\ call.vp # 1

\* the compositing steps of the viewport itself: its window upload or its
\* draw into the parent viewport
OwnComposites ==
    { i \in Idx : /\ trace[i].op \in UploadOps \cup {"draw.Draw"}
                  /\ trace[i].node = call.vp }

\* how often the touched rectangle reached its destination: the window
\* uploads of a node or anchor re-render, the viewport's own compositing of
\* a full or fallback re-render
TouchedUploads ==
    IF SelNode \/ SelAnchor THEN Cardinality(Uploads)
    ELSE Cardinality(OwnComposites)

\* the viewport passes the checks of PushBounds
VpVisible(vp) ==
    /\ ~Empty(VpBBoxOf(Geom, vp))
    /\ ParentViewport(vp) # NoNode =>
         ~Empty(Intersect(WinBBoxOf(Geom, vp),
                          WinBBoxOf(Geom, ParentViewport(vp))))

\* C10 as claimed: every non-Ignore action uploads or composites the touched
\* rectangle exactly once, also when Win is nil.
C10_UploadedExactlyOnce ==
    (ValidCall /\ ~SelIgnore) => TouchedUploads = 1

\* C10 amended: a node or anchor re-render uploads the rectangle once when
\* the viewport's Win is non-nil and not at all when it is nil; a full or
\* fallback re-render composites the viewport once when it passes PushBounds
\* and is nested or has a window, else not at all; never more than once.
C10_UploadedOnceIfWin ==
    (ValidCall /\ ~SelIgnore) =>
        /\ TouchedUploads <= 1
        /\ TouchedUploads = 1 <=>
             IF SelNode \/ SelAnchor THEN Win[call.vp] # NoWin
             ELSE /\ VpVisible(call.vp)
                  /\ ParentViewport(call.vp) # NoNode \/ Win[call.vp] # NoWin

\* C10 witness: a node re-render on a viewport with a window uploaded once
C10_Witness ==
    /\ ValidCall /\ SelNode
    /\ Win[call.vp] # NoWin
    /\ TouchedUploads = 1

\* C11: after any sequence of signals the window shows the pixels a full
\* render from scratch of the same tree would show.
C11_ScreenIsFullRender ==
    Pix # NoPix => Pix.screen = ScratchPix(Pix.shown).screen

\* C11 for the senders in the main viewport that are no viewports: while
\* only they have signalled, the window shows what a full render would
C11_MainViewportSenders ==
    (Pix # NoPix /\ Pix.main) => Pix.screen = ScratchPix(Pix.shown).screen

\* a widget of the main viewport shows its other value on the window after
\* a node re-render
C11_MainWitness ==
    /\ Pix # NoPix /\ Pix.main
    /\ Pix.shown[3] = 1
    /\ call.fn = "SignalViewport2D" /\ call.rr.node = 3
    /\ Pix.screen[Pt(0, 0)] = Colour(3, 1)

\* the viewport of the last buffer operation, before and after it
PreVp == call.pre.vp[call.vp]
PostVp == Buf.vp[call.vp]

RECURSIVE SumMin(_)
\* the sum of ViewBox.Min over the viewports of the sequence vs
SumMin(vs) ==
    IF vs = <<>> THEN ZP
    ELSE LET m == Buf.vp[Head(vs)].ViewBoxMin
             r == SumMin(Tail(vs))
         IN  Pt(m.X + r.X, m.Y + r.Y)

\* viewport v and the viewports above it
VpChain(v) == SetToSeq((Ancestors(v) \cup {v}) \cap Viewports)

\* C12: after a layout pass that ran ComputeBBox2D on every viewport, root
\* first, every non-popup viewport has ViewBox.Min equal to the floor of the
\* position allocated in this pass, and WinBBox equal to its pixel bounds
\* moved by the sum of ViewBox.Min over itself and its ancestor viewports.
C12_WinBBoxIsSumOfMins ==
    (Buf # NoBuf /\ call.fn = "Layout2DTree" /\ ~Buf.panic) =>
        \A v \in Viewports :
            ~IsPopup(v) =>
                /\ Buf.vp[v].ViewBoxMin = Pt(Buf.vp[v].AllocPos.X \div 2,
                                             Buf.vp[v].AllocPos.Y \div 2)
                /\ Buf.vp[v].WinBBox = AddPt(PixBounds(Buf, v), SumMin(VpChain(v)))

\* C12 witness: a second layout pass moved the nested viewport, and its
\* window box follows the new position below a main viewport at (1, 1)
C12_Witness ==
    /\ Buf # NoBuf /\ call.fn = "Layout2DTree" /\ ~Buf.panic
    /\ ~IsPopup(4)
    /\ call.pre.vp[4].Pixels # NoImage
    /\ call.pre.vp[4].ViewBoxMin = Pt(0, 0)
    /\ Buf.vp[4].ViewBoxMin = Pt(1, 1)
    /\ Buf.vp[1].ViewBoxMin = Pt(1, 1)
    /\ Buf.vp[4].WinBBox.Min = Pt(2, 2)

\* C13: after Resize, BBox2D or RenderOverlays returns, the viewport's
\* VpBBox equals the bounds of the pixel buffer it now has.
C13_VpBBoxIsPixelsBounds ==
    ( /\ Buf # NoBuf
      /\ call.fn \in {"Resize", "BBox2D", "RenderOverlays"}
      /\ ~Buf.panic
      /\ PostVp.Pixels # NoImage )
    => PostVp.VpBBox = PixBounds(Buf, call.vp)

\* C14: Resize to the size the pixel buffer already has releases nothing,
\* allocates nothing and leaves OSImage, Pixels, the image contents and the
\* render state as they were; and whenever Resize does install a new buffer
\* it has the requested size, so the same call repeated changes nothing.
C14_SameSizeResizeNoOp ==
    (Buf # NoBuf /\ call.fn = "Resize") =>
        /\ ( /\ PreVp.Pixels # NoImage
             /\ call.pre.img[PreVp.Pixels].size = call.size )
           => /\ Buf.img = call.pre.img
              /\ PostVp = [PreVp EXCEPT !.ViewBoxSize = call.size]
        /\ PostVp.Pixels # PreVp.Pixels
           => /\ Buf.img[PostVp.Pixels].size = call.size
              /\ PostVp.RenderImage = PostVp.Pixels

\* C14 witness: a buffer that has been drawn into was resized to its size
C14_Witness ==
    /\ Buf # NoBuf /\ call.fn = "Resize"
    /\ PreVp.Pixels # NoImage
    /\ PreVp.OSImage = PreVp.Pixels
    /\ call.pre.img[PreVp.Pixels].size = call.size
    /\ call.pre.img[PreVp.Pixels].drawn
    /\ PostVp.Pixels = PreVp.Pixels

\* C15: when the allocated size has a zero component and NewImage succeeds,
\* BBox2D returns normally with a pixel buffer of non-empty bounds.
C15_ZeroSizeGetsBuffer ==
    ( /\ Buf # NoBuf
      /\ call.fn = "BBox2D"
      /\ call.ok
      /\ PreVp.AllocSize.X = 0 \/ PreVp.AllocSize.Y = 0 )
    => /\ ~Buf.panic
       /\ PostVp.Pixels # NoImage
       /\ ~Empty(PixBounds(Buf, call.vp))

\* a viewport without an allocation got the default buffer from BBox2D
C15_DefaultWitness ==
    /\ Buf # NoBuf /\ call.fn = "BBox2D" /\ ~Buf.panic
    /\ PreVp.AllocSize = ZP /\ PreVp.Pixels = NoImage
    /\ PixBounds(Buf, call.vp) = Rect(0, 0, DefaultSize, DefaultSize)

\* C16: when NewImage fails in a Resize to a different non-zero size, the
\* viewport's OSImage, Pixels, render state and ViewBox.Size are as before
\* the call and the previous OSImage has not been released.
C16_FailedResizeKeepsBuffer ==
    ( /\ Buf # NoBuf
      /\ call.fn = "Resize"
      /\ ~call.ok
      /\ call.size.X # 0 /\ call.size.Y # 0
      /\ PreVp.Pixels # NoImage
      /\ call.pre.img[PreVp.Pixels].size # call.size )
    => /\ PostVp = PreVp
       /\ PreVp.OSImage # NoImage => ~Buf.img[PreVp.OSImage].released

\* the last call was fn on a viewport that is, or is not, an overlay
RenderCalled(fn) == call.fn = fn /\ call.vp \in Viewports
OverlayVp == "Overlay" \in Flag[call.vp]

\* the parent viewport of the viewport of the last call
CallPar == ParentViewport(call.vp)

\* the tests that make a non-overlay viewport skip its render
SkipsRender ==
    \/ Empty(VpBBoxOf(Geom, call.vp))
    \/ /\ CallPar # NoNode
       /\ Empty(Intersect(WinBBoxOf(Geom, call.vp), WinBBoxOf(Geom, CallPar)))

\* C17: after Render2D of any viewport returns, the bounds stack of every
\* viewport's render state is what it was before the call.
C17_ClipBalanced ==
    RenderCalled("Render2D") => Render = call.pre

\* C17 without overlays: a render pass that meets no overlay viewport
\* leaves every bounds stack as it was, and pops what it pushed
C17_BalancedWithoutOverlay ==
    ( /\ RenderCalled("Render2D")
      /\ \A v \in Subtree(call.vp) \cap Viewports : "Overlay" \notin Flag[v] )
    => /\ Render = call.pre
       /\ Cardinality(AllCallsOf("rs.PushBounds"))
            = Cardinality(AllCallsOf("rs.PopBounds"))

\* a render pass of the main viewport that pushed and popped for itself
\* and for the nested viewport
C17_BalancedWitness ==
    /\ RenderCalled("Render2D") /\ call.vp = 1
    /\ \A v \in Viewports : "Overlay" \notin Flag[v]
    /\ Cardinality(AllCallsOf("rs.PushBounds")) = 2
    /\ Render = call.pre

C19_OverlayAlwaysProceeds ==
    (RenderCalled("PushBounds") /\ OverlayVp) =>
        /\ call.ok
        /\ CallPar # NoNode =>
             Render = [call.pre EXCEPT
                         ![CallPar] = Append(@, PixelsBounds(Geom, CallPar))]
        /\ CallPar = NoNode => Render = call.pre

\* C19 witness: an overlay with an empty VpBBox pushed its parent's bounds
C19_Witness ==
    /\ RenderCalled("PushBounds") /\ OverlayVp
    /\ CallPar # NoNode
    /\ Empty(VpBBoxOf(Geom, call.vp))
    /\ call.ok
    /\ Len(Render[CallPar]) = Len(call.pre[CallPar]) + 1

\* C20: DrawIntoParent of an overlay viewport draws its whole pixel buffer
\* at its allocated position onto the parent's buffer, not cut by the
\* parent's children box or a ViewBox; with a nil parent it draws nothing.
C20_OverlayDrawnWhole ==
    (RenderCalled("DrawIntoParent") /\ OverlayVp) =>
        /\ call.par = NoNode => trace = <<>>
        /\ call.par # NoNode =>
             /\ Len(trace) = 1
             /\ trace[1].op = "draw.Draw"
             /\ trace[1].node = call.vp
             /\ trace[1].to = call.par
             /\ trace[1].r = PixelsBounds(Geom, call.vp)
             /\ trace[1].at = AddPt(PixelsBounds(Geom, call.vp),
                                    AllocPosOf(Geom, call.vp))

\* C20 witness: an overlay lying partly outside its parent's children box
\* was drawn with its whole rectangle
C20_Witness ==
    /\ RenderCalled("DrawIntoParent") /\ OverlayVp
    /\ call.par # NoNode
    /\ Len(trace) = 1
    /\ ~Empty(trace[1].at)
    /\ Intersect(trace[1].at, VpBBoxOf(Geom, Par[call.vp])) # trace[1].at

\* a test pattern: every pixel of the viewport of the last call has its
\* own colour, but one that is transparent, and every other buffer is
\* filled with a single colour
TestPix ==
    [shown  |-> [n \in Widgets |-> 0],
     buf    |-> [v \in Viewports |->
                   [p \in Cells(PixelsBounds(Geom, v)) |->
                      IF v # call.vp THEN 1
                      ELSE IF p = Pt(1, 0) THEN Blank
                      ELSE 10 + 4 * p.X + p.Y]],
     screen |-> [p \in Cells(WinRect) |-> Blank],
     main   |-> TRUE]

\* the test pattern after the calls of the last handler
TestPixAfter == Paint(TestPix, trace)

\* draw.Over of source pixel q of buffer src on a pixel that held old
Composite(src, q, old) ==
    IF q \in DOMAIN src /\ src[q] # Blank THEN src[q] ELSE old

\* the ViewBox rectangle of the viewport of the last call, and its
\* intersection with the ChildrenBBox2D of its tree parent
CallViewBox == ViewBoxBounds(ViewBoxOf(Geom, call.vp))
CallVisible == Intersect(CallViewBox, ChildrenBBox2D(Par[call.vp]))

\* DrawIntoParent was called on a non-overlay viewport with a tree parent
NestedDraw ==
    /\ RenderCalled("DrawIntoParent") /\ ~OverlayVp
    /\ Par[call.vp] # NoNode /\ call.par # NoNode

\* C21: DrawIntoParent of a nested non-overlay viewport changes the
\* parent's buffer only inside the intersection of its ViewBox rectangle
\* with the parent's ChildrenBBox2D; there each pixel p is composited from
\* the viewport's own pixel at p minus ViewBox.Min, and nothing changes
\* when the intersection is empty.
C21_DrawnInsideIntersection ==
    NestedDraw =>
        \A p \in DOMAIN TestPix.buf[call.par] :
            TestPixAfter.buf[call.par][p] =
                IF InRect(p, CallVisible)
                THEN Composite(TestPix.buf[call.vp],
                               SubPt(p, CallViewBox.Min),
                               TestPix.buf[call.par][p])
                ELSE TestPix.buf[call.par][p]

\* C21 witness: the viewport is cut off at its upper left, and the pixel of
\* the parent's corner was taken from inside the viewport's buffer
C21_Witness ==
    /\ NestedDraw
    /\ ~Empty(CallVisible)
    /\ CallVisible.Min # CallViewBox.Min
    /\ TestPixAfter.buf[call.par][CallVisible.Min]
         = TestPix.buf[call.vp][SubPt(CallVisible.Min, CallViewBox.Min)]
    /\ TestPixAfter.buf[call.par] # TestPix.buf[call.par]

\* C21 with an empty intersection: no pixel of the parent changed
C21_EmptyWitness ==
    /\ NestedDraw
    /\ Empty(CallVisible)
    /\ ~Empty(PixelsBounds(Geom, call.vp))
    /\ TestPixAfter.buf[call.par] = TestPix.buf[call.par]

\* the call was RenderViewport2D of a popup, of a nested viewport that is
\* no popup, of a main viewport that is no popup
PopupVp == "VpFlagPopup" \in Flag[call.vp]
CompositePopup == RenderCalled("RenderViewport2D") /\ PopupVp
CompositeNested == RenderCalled("RenderViewport2D") /\ ~PopupVp /\ CallPar # NoNode
CompositeMain == RenderCalled("RenderViewport2D") /\ ~PopupVp /\ CallPar = NoNode

\* the log holds one upload of the whole buffer of the viewport at
\* WinBBox.Min, inside an update bracket, and nothing else
OnlyUploadVp ==
    /\ Len(trace) = 3
    /\ AllCallsOf("Win.UploadVp") = {2}
    /\ trace[2].node = call.vp
    /\ trace[2].r = PixelsBounds(Geom, call.vp)
    /\ trace[2].at.Min = WinBBoxOf(Geom, call.vp).Min

\* the log holds one draw into the parent viewport, and nothing else
OnlyDrawIntoParent ==
    /\ Len(trace) = 1
    /\ trace[1].op = "draw.Draw"
    /\ trace[1].node = call.vp
    /\ trace[1].to = CallPar

\* the log holds one request to upload all viewports, and nothing else
OnlyUploadAll ==
    /\ Len(trace) = 1
    /\ trace[1].op = "Win.UploadAllViewports"
    /\ trace[1].node = call.vp

\* C22 as stated: RenderViewport2D composites through exactly one
\* destination: a popup uploads its whole buffer to the window at
\* WinBBox.Min, a non-popup with a parent viewport draws into the parent's
\* buffer, the main viewport asks the window to upload all viewports.
C22_OneDestination ==
    /\ CompositePopup => OnlyUploadVp
    /\ CompositeNested => OnlyDrawIntoParent
    /\ CompositeMain => OnlyUploadAll

\* C22 amended: the same for the nested viewport, and for a popup and the
\* main viewport when Win is set after SetCurWin; without a window a popup
\* and the main viewport composite nothing.
C22_OneDestinationIfWin ==
    /\ CompositePopup =>
         IF Win[call.vp] # NoWin THEN OnlyUploadVp ELSE trace = <<>>
    /\ CompositeNested => OnlyDrawIntoParent
    /\ CompositeMain =>
         IF Win[call.vp] # NoWin THEN OnlyUploadAll ELSE trace = <<>>

\* C22 witness: a popup that has a parent viewport uploaded itself to the
\* window and drew nothing into the parent
C22_Witness ==
    /\ CompositePopup
    /\ CallPar # NoNode
    /\ OnlyUploadVp
    /\ AllCallsOf("draw.Draw") = {}

\* C23: a popup viewport with a non-empty VpBBox is never skipped by
\* PushBounds because its WinBBox does not intersect the WinBBox of the
\* viewport recorded as its parent: PushBounds answers true.
C23_PopupNeverOffscreen ==
    ( /\ RenderCalled("PushBounds")
      /\ PopupVp
      /\ ~Empty(VpBBoxOf(Geom, call.vp)) )
    => call.ok

\* C23 for popups without a parent viewport, and for popups that are
\* overlays: these are never skipped
C23_PopupWithoutParent ==
    ( /\ RenderCalled("PushBounds")
      /\ PopupVp
      /\ ~Empty(VpBBoxOf(Geom, call.vp))
      /\ CallPar = NoNode \/ OverlayVp )
    => call.ok

\* a popup without a parent viewport pushed its bounds
C23_TopLevelWitness ==
    /\ RenderCalled("PushBounds")
    /\ PopupVp /\ ~OverlayVp
    /\ CallPar = NoNode
    /\ call.ok
    /\ Render[call.vp] # call.pre[call.vp]

\* the positions in the log of the steps of the Render2D of the viewport
\* of the last call: its clip push, its fill, the renders of the nodes
\* below it, its compositing calls and its clip pop
PushSteps ==
    { i \in Idx : /\ trace[i].op = "rs.PushBounds"
                  /\ trace[i].node = IF OverlayVp THEN CallPar ELSE call.vp
                  /\ \A j \in 1 .. (i - 1) : trace[j].op # "rs.PushBounds" }
FillSteps == { i \in Idx : trace[i].op = "FillViewport" /\ trace[i].node = call.vp }
PopSteps ==
    { i \in Idx : /\ trace[i].op = "rs.PopBounds" /\ trace[i].node = call.vp
                  /\ i = Len(trace) }
ChildSteps ==
    { i \in Idx \ ({1} \cup PushSteps \cup PopSteps) :
        \/ trace[i].node \in Subtree(call.vp) \ {call.vp}
        \/ trace[i].op \in {"rs.PushBounds", "rs.PopBounds"} }
CompositeSteps ==
    { i \in Idx : /\ trace[i].node = call.vp
                  /\ trace[i].op \in UploadOps \cup {"draw.Draw", "Win.UpdateStart",
                                                     "Win.UpdateEnd"} }

\* every position of A lies before every position of B
Before(A, B) == \A i \in A, j \in B : i < j

\* the Render2D of the last call went past PushBounds
Proceeded == RenderCalled("Render2D") /\ Len(trace) > 1

\* C24: in a Render2D that proceeds the clip is pushed first, then the
\* background is filled (only when Fill is set), then all children are
\* rendered, then the viewport is composited, then the clip is popped; no
\* compositing call comes before the last call of a child's render.
C24_RenderOrder ==
    Proceeded =>
        /\ Cardinality(PopSteps) = 1
        /\ Cardinality(FillSteps) = IF Fill(call.vp) THEN 1 ELSE 0
        /\ (~OverlayVp \/ CallPar # NoNode) => PushSteps = {2}
        /\ Before(PushSteps, FillSteps)
        /\ Before(FillSteps, ChildSteps)
        /\ Before(PushSteps, ChildSteps)
        /\ Before(ChildSteps, CompositeSteps)
        /\ Before(FillSteps, CompositeSteps)
        /\ Before(CompositeSteps, PopSteps)
        /\ Before(ChildSteps, PopSteps)
        /\ Idx = {1} \cup PushSteps \cup FillSteps \cup ChildSteps
                     \cup CompositeSteps \cup PopSteps
        /\ (Win[call.vp] # NoWin \/ (~PopupVp /\ CallPar # NoNode))
             => CompositeSteps # {}

\* C24 witness: the main viewport was filled, rendered its children (the
\* nested viewport among them, which drew into it), and uploaded itself
C24_Witness ==
    /\ Proceeded /\ call.vp = 1
    /\ FillSteps # {} /\ CompositeSteps # {}
    /\ \E i \in ChildSteps : trace[i].op = "draw.Draw" /\ trace[i].to = 1
    /\ \E i \in ChildSteps : trace[i].op = "Render2D" /\ trace[i].node = 3

\* the scene before the last call, and the popup's main layout then: its
\* first child, when that is a layout
PreScene == call.pre
MainLayout ==
    IF PreScene.kids[call.vp] # <<>> /\ Kind[PreScene.kids[call.vp][1]] = "layout"
    THEN PreScene.kids[call.vp][1] ELSE NoNode

PopupDeleted == call.fn = "DeletePopup"
DestroyAll == "VpFlagPopupDestroyAll" \in PreScene.flag[call.vp]

\* the items of the main layout were taken out of it and not destroyed,
\* the popup and the main layout were destroyed
ItemsKept ==
    /\ SDestroyed(Scene, call.vp)
    /\ Scene.par[call.vp] = NoNode
    /\ MainLayout # NoNode =>
         /\ SDestroyed(Scene, MainLayout)
         /\ Scene.kids[MainLayout] = <<>>
         /\ \A k \in Range(PreScene.kids[MainLayout]) :
              /\ ~SDestroyed(Scene, k)
              /\ Scene.par[k] = NoNode

\* the popup and everything that was below it were destroyed
AllDestroyed ==
    /\ SDestroyed(Scene, call.vp)
    /\ Scene.par[call.vp] = NoNode
    /\ \A m \in SDesc(PreScene, call.vp) : SDestroyed(Scene, m)

C25_MenuItemsSurviveClose ==
    (PopupDeleted /\ Len(PreScene.kids[call.vp]) = 1)
    => IF DestroyAll THEN AllDestroyed ELSE ItemsKept

\* a menu of two items was closed, and the items were kept
C25_MenuWitness ==
    /\ PopupDeleted /\ ~DestroyAll
    /\ Len(PreScene.kids[call.vp]) = 1
    /\ MainLayout # NoNode
    /\ Len(PreScene.kids[MainLayout]) = 2
    /\ ItemsKept

\* the viewport operations that open update brackets on the window
BracketOps == {"UploadToWin", "ReRender2DNode", "ReRender2DAnchor"}

Starts == AllCallsOf("Win.UpdateStart")
Ends == AllCallsOf("Win.UpdateEnd")

\* C26: in UploadToWin, ReRender2DNode and ReRender2DAnchor every
\* Win.UpdateStart is followed by the upload and then by the one
\* Win.UpdateEnd that carries the value UpdateStart returned; an operation
\* that finds Win nil calls neither; afterwards no bracket is left open.
C26_BracketsNest ==
    (call.fn \in BracketOps /\ call.vp \in Viewports) =>
        /\ \A i \in Starts :
             /\ i + 2 \in Ends
             /\ trace[i + 1].op \in UploadOps
             /\ trace[i + 2].val = trace[i].val
             /\ trace[i + 2].node = trace[i].node
        /\ \A j \in Ends : j - 2 \in Starts
        /\ WinDepth(trace) = 0
        /\ Win[call.vp] = NoWin =>
             \A i \in Starts \cup Ends \cup Uploads : trace[i].from # call.fn
        /\ Win[call.vp] # NoWin =>
             Cardinality({ i \in Starts : trace[i].from = call.fn }) = 1

\* C26 witness: a re-render of the main viewport's layout; the nested
\* popup opened and closed a bracket of its own before the region upload
\* opened and closed the last one
C26_Witness ==
    /\ call.fn = "ReRender2DNode" /\ call.vp \in Viewports
    /\ Cardinality(Starts) = 2
    /\ Cardinality(Ends) = 2
    /\ trace[Len(trace)].op = "Win.UpdateEnd"
    /\ trace[Len(trace)].from = "ReRender2DNode"
    /\ trace[Len(trace)].val = trace[Len(trace) - 2].val

\* the last handler was the closure on a viewport's own NodeSig
OwnSignal == call.fn = "NodeSig" /\ call.vp \in Viewports

\* the log is that of one full render of the receiving viewport: style,
\* layout and render of its whole tree, and no partial re-render
FullRenderOnly ==
    /\ AllCallsOf("FullRender2DTree") = {1}
    /\ trace[1].node = call.vp
    /\ \E i \in CallsOf("FullRender2DTree", "Style2DTree"),
          j \in CallsOf("FullRender2DTree", "Layout2DTree"),
          k \in CallsOf("FullRender2DTree", "Render2DTree") :
          /\ i < j /\ j < k
          /\ trace[i].node = call.vp
          /\ trace[j].node = call.vp
          /\ trace[k].node = call.vp
    /\ AllCallsOf("ReRender2DTree") = {}
    /\ AllCallsOf("ReRender2D") = {}
    /\ AllCallsOf("Win.UploadVpRegion") = {}

\* C27: a signal on a viewport's own NodeSig results in a full render of
\* the receiving viewport's tree and never in a partial one, whatever the
\* signal and its payload, unless the viewport is deleted or destroyed:
\* then nothing is rendered.
C27_OwnSignalFullRender ==
    OwnSignal =>
        IF IsDeleted(call.vp) \/ IsDestroyed(call.vp)
        THEN trace = <<>>
        ELSE FullRenderOnly

\* C27 witness: a value-only update on the own NodeSig of a live viewport
\* was answered with a full render
C27_Witness ==
    /\ OwnSignal
    /\ call.sig = "NodeSignalUpdated" /\ call.data = {"FieldUpdated"}
    /\ ~IsDeleted(call.vp) /\ ~IsDestroyed(call.vp)
    /\ FullRenderOnly

\* a deleted viewport received its own signal and rendered nothing
C27_DeletedWitness ==
    /\ OwnSignal
    /\ IsDeleted(call.vp)
    /\ trace = <<>>

\* the last call was a pass of RenderOverlays
OverlayPassed == call.fn = "RenderOverlays"

\* the valid top-level children of the viewport when the pass began
ValidKids == SelectSeq(PreScene.kids[call.vp], IsNode2D)

\* the nodes of the Render2D calls of the pass, in the order of the calls
RECURSIVE RenderedOf(_)
RenderedOf(tr) ==
    IF tr = <<>> THEN <<>>
    ELSE IF Head(tr).op = "Render2D"
         THEN <<Head(tr).node>> \o RenderedOf(Tail(tr))
         ELSE RenderedOf(Tail(tr))

\* child k was first seen by this pass: it was marked, initialised and
\* styled once, in that order, before its own Render2D
FirstSeen(k) ==
    \E a, b, c, d \in Idx :
        /\ a < b /\ b < c /\ c < d
        /\ trace[a].op = "SetAsOverlay" /\ trace[a].node = k
        /\ trace[b].op = "Init2D" /\ trace[b].node = k
        /\ trace[c].op = "Style2D" /\ trace[c].node = k
        /\ trace[d].op = "Render2D" /\ trace[d].node = k

\* C28: in every pass of RenderOverlays the viewport is marked as overlay
\* and its buffer cleared before any child draws; every valid top-level
\* child gets Render2D exactly once, in child order, and no size or layout
\* pass runs; a child is marked overlay, initialised and styled in the
\* first pass in which it is present and never again.
C28_OverlayPass ==
    /\ \A n \in DOMAIN Scene.inits : Scene.inits[n] <= 1 /\ Scene.styles[n] <= 1
    /\ OverlayPassed =>
        /\ "Overlay" \in Scene.flag[call.vp]
        /\ trace[1].op = "SetAsOverlay" /\ trace[1].node = call.vp
        /\ \E c \in AllCallsOf("Clear") :
              \A i \in AllCallsOf("Render2D") \cup AllCallsOf("Init2D") : c < i
        /\ RenderedOf(trace) = ValidKids
        /\ \A i \in Idx : trace[i].op \in {"SetAsOverlay", "Resize", "Clear",
                                           "Init2D", "Style2D", "Render2D"}
        /\ \A k \in Range(ValidKids) :
              IF PreScene.inits[k] = 0
              THEN /\ FirstSeen(k)
                   /\ Scene.inits[k] = 1 /\ Scene.styles[k] = 1
                   /\ "Overlay" \in Scene.flag[k]
              ELSE /\ Scene.inits[k] = PreScene.inits[k]
                   /\ Scene.styles[k] = PreScene.styles[k]
                   /\ \A i \in Idx : trace[i].node = k => trace[i].op = "Render2D"
        /\ \A n \in SNodes \ (Range(ValidKids) \cup {call.vp}) :
              /\ Scene.inits[n] = PreScene.inits[n]
              /\ \A i \in Idx : trace[i].node # n

\* C28 witness: a later pass over two children, one initialised by an
\* earlier pass and one new; both were rendered, only the new one was
\* initialised
C28_Witness ==
    /\ OverlayPassed
    /\ \E k1, k2 \in Range(ValidKids) :
          /\ PreScene.inits[k1] = 1 /\ PreScene.inits[k2] = 0
          /\ Scene.inits[k1] = 1 /\ Scene.inits[k2] = 1
          /\ FirstSeen(k2)
    /\ Len(RenderedOf(trace)) >= 2

\* the calls that run SetCurWin, and the upload calls
SetCurWinOps == {"Init2D", "Style2D", "RenderViewport2D"}
UploadCalls == {"UploadMainToWin", "UploadToWin"}

\* C29: SetCurWin only ever replaces Win with a non-nil window: while the
\* viewport has no parent window Win keeps its value, so no Init2D,
\* Style2D or popup RenderViewport2D resets a non-nil Win to nil; and with
\* a nil Win UploadMainToWin and UploadToWin do nothing.
C29_WinNeverReset ==
    [][ /\ \A v \in Viewports : Win[v] # NoWin => Win'[v] # NoWin
        /\ PWin = NoWin => Win' = Win
        /\ \A v \in Viewports : Win'[v] \in {Win[v], PWin}
        /\ (call'.fn \in UploadCalls /\ call' # call /\ Win[call'.vp] = NoWin)
             => trace' = <<>> ]_vars

\* C29 witness: Style2D or Init2D ran on a viewport outside any window,
\* and the viewport still has the window it had
C29_Witness ==
    /\ call.fn \in SetCurWinOps /\ call.vp \in Viewports
    /\ PWin = NoWin
    /\ call.win[call.vp] = TheWin
    /\ Win[call.vp] = TheWin

\* an upload was asked of a viewport without a window and did nothing
C29_NilWitness ==
    /\ call.fn \in UploadCalls /\ call.vp \in Viewports
    /\ Win[call.vp] = NoWin
    /\ trace = <<>>

\* the last call was String(i) followed by FromString of its result
RoundTripped == call.fn = "RoundTrip"
InTable(i) == 0 <= i /\ i < NumNames

\* the name is "KeyFuns(<i>)" and no slice of the table
NumberForm ==
    /\ SubSeq(call.name, 1, 8) = KeyFunsOpen
    /\ call.name[Len(call.name)] = ")"
    /\ SubSeq(call.name, 9, Len(call.name) - 1) = FormatInt(call.i)
    /\ \A j \in 0 .. (NumNames - 1) : call.name # NameAt(j)

\* the round trip gave the value back
CameBack == ~call.res.err /\ call.res.val = call.i

\* C30 as stated: for every i with 0 <= i < 49, KeyFunsN included,
\* FromString(String(i)) succeeds and yields i; the names of the table are
\* pairwise distinct; and String(i) for an i outside that range is
\* "KeyFuns(<i>)", not a slice of the table.
C30_NamesRoundTrip ==
    /\ \A a, b \in 0 .. (NumNames - 1) : a # b => NameAt(a) # NameAt(b)
    /\ RoundTripped =>
         IF 0 <= call.i /\ call.i < 49 THEN CameBack ELSE NumberForm

\* C30 amended: the same with the range the table has: 0 <= i < 50, the
\* last name, KeyFunsN, being that of 49.
C30_NamesRoundTripInTable ==
    /\ \A a, b \in 0 .. (NumNames - 1) : a # b => NameAt(a) # NameAt(b)
    /\ RoundTripped =>
         IF InTable(call.i)
         THEN CameBack /\ call.name = NameAt(call.i)
         ELSE NumberForm

\* C30 witness: the last name of the table, KeyFunsN, came back into a
\* receiver that held another value
C30_Witness ==
    /\ RoundTripped
    /\ call.i = NumNames - 1
    /\ call.name = <<"K", "e", "y", "F", "u", "n", "s", "N">>
    /\ call.recv # call.i
    /\ ~call.res.err /\ call.res.val = call.i

\* a value just past the table was formatted as a number
C30_OutsideWitness ==
    /\ RoundTripped
    /\ call.i = NumNames
    /\ call.name = <<"K", "e", "y", "F", "u", "n", "s", "(", "5", "0", ")">>
    /\ call.res.err /\ call.res.val = call.recv


\* the last call was FromString(s)
Parsed == call.fn = "FromString"

\* s is exactly one of the names of the table
IsName(s) == \E j \in 0 .. (NumNames - 1) : s = NameAt(j)

\* s is the beginning of a name
IsNamePrefix(s) ==
    \E j \in 0 .. (NumNames - 1) :
        Len(s) < Len(NameAt(j)) /\ s = SubSeq(NameAt(j), 1, Len(s))

\* C31: FromString with a string that is not exactly one of the table's
\* names (the empty string, a prefix of a name, the "KeyFuns(n)" form among
\* them) returns an error and leaves the receiver's value as it was.
C31_NotANameIsError ==
    (Parsed /\ ~IsName(call.s)) =>
        call.res.err /\ call.res.val = call.recv

\* C31 witness: a proper beginning of a name, itself no name, was refused
\* and the receiver kept a value that is not the index of that name
C31_Witness ==
    /\ Parsed
    /\ call.s = <<"K", "e", "y", "F", "u", "n", "M", "o", "v", "e">>
    /\ IsNamePrefix(call.s) /\ ~IsName(call.s)
    /\ call.recv = 7
    /\ call.res.err /\ call.res.val = 7

\* the empty string was refused
C31_EmptyWitness ==
    /\ Parsed /\ call.s = <<>>
    /\ call.res.err /\ call.res.val = call.recv

\* the text String gives for 50 was refused
C31_NumberWitness ==
    /\ Parsed
    /\ call.s = <<"K", "e", "y", "F", "u", "n", "s", "(", "5", "0", ")">>
    /\ call.res.err /\ call.res.val = call.recv

\* a beginning of a name that is itself a name was taken: KeyFunInsert
\* begins KeyFunInsertAfter
C31_PrefixNameWitness ==
    /\ Parsed
    /\ IsName(call.s) /\ IsNamePrefix(call.s)
    /\ ~call.res.err /\ call.res.val # call.recv
    /\ NameAt(call.res.val) = call.s

=============================================================================
